---------------------------- MODULE Spec2Model ----------------------------
(***************************************************************************)
(* Model of the OCR post-processing pipeline of DeliveryOptimization:      *)
(* src/src/ingestion/ocr.py (the ingestion module used by the form) and    *)
(* src/procesador.py (the batch script).                                   *)
(*                                                                         *)
(* A Python str is a sequence of one-character strings, so that regular    *)
(* expressions, strip(), lower(), zfill(), strptime() and strftime() are   *)
(* computed character by character as the code computes them.  None and    *)
(* the empty str are both the empty sequence (the code only tests them     *)
(* with "not x").                                                          *)
(***************************************************************************)
EXTENDS Integers, Sequences, FiniteSets, TLC

(***************************************************************************)
(* Characters and the classes of Python's re module.                       *)
(***************************************************************************)
DIGITOS == <<"0","1","2","3","4","5","6","7","8","9">>

MINUSCULAS == <<"a","b","c","d","e","f","g","h","i","j","k","l","m","n","o","p","q","r","s","t","u","v","w","x","y","z">>

MAYUSCULAS == <<"A","B","C","D","E","F","G","H","I","J","K","L","M","N","O","P","Q","R","S","T","U","V","W","X","Y","Z">>

Rango(f) == {f[k] : k \in DOMAIN f}

CharsDigito == Rango(DIGITOS)

CharsPalabra == Rango(MINUSCULAS) \cup Rango(MAYUSCULAS) \cup Rango(DIGITOS) \cup {"_"}

\* \d
EsDigito(c) == c \in CharsDigito

\* \w : letters, digits and the underscore
EsPalabra(c) == c \in CharsPalabra

\* \s
EsEspacio(c) == c = " "

TablaLower ==
    [c \in Rango(MAYUSCULAS) |->
        MINUSCULAS[CHOOSE k \in DOMAIN MAYUSCULAS : MAYUSCULAS[k] = c]]

\* str.lower() on one character
LowerChar(c) == IF c \in DOMAIN TablaLower THEN TablaLower[c] ELSE c

\* str.lower()
Lower(s) == [k \in 1..Len(s) |-> LowerChar(s[k])]

\* str.strip()
Strip(s) ==
    IF \A k \in 1..Len(s) : EsEspacio(s[k])
    THEN <<>>
    ELSE LET a == CHOOSE k \in 1..Len(s) :
                    ~EsEspacio(s[k]) /\ \A j \in 1..(k-1) : EsEspacio(s[j])
             b == CHOOSE k \in 1..Len(s) :
                    ~EsEspacio(s[k]) /\ \A j \in (k+1)..Len(s) : EsEspacio(s[j])
         IN  SubSeq(s, a, b)

\* kw in t
Contiene(t, kw) ==
    \E p \in 1..(Len(t) - Len(kw) + 1) : SubSeq(t, p, p + Len(kw) - 1) = kw

\* the character at position p is a digit / a word character / the character c
DigitoEn(s, p) == p >= 1 /\ p <= Len(s) /\ EsDigito(s[p])

PalabraEn(s, p) == p >= 1 /\ p <= Len(s) /\ EsPalabra(s[p])

CharEn(s, p, c) == p >= 1 /\ p <= Len(s) /\ s[p] = c

\* \s* from position p: the position after the (greedy) run of whitespace
SaltarEspacios(s, p) ==
    CHOOSE q \in p..(Len(s) + 1) :
        /\ \A k \in p..(q-1) : EsEspacio(s[k])
        /\ (q = Len(s) + 1 \/ ~EsEspacio(s[q]))

TablaValor == [c \in CharsDigito |-> CHOOSE n \in 0..9 : DIGITOS[n + 1] = c]

\* int() of a string of digits
RECURSIVE Num(_)
Num(s) ==
    IF s = <<>> THEN 0
    ELSE 10 * Num(SubSeq(s, 1, Len(s) - 1)) + TablaValor[s[Len(s)]]

\* "%02d" and "%04d"
Dos(n) == <<DIGITOS[((n \div 10) % 10) + 1], DIGITOS[(n % 10) + 1]>>

Cuatro(n) == Dos(n \div 100) \o Dos(n % 100)

\* str.zfill(2)
Zfill2(s) == IF Len(s) < 2 THEN <<"0">> \o s ELSE s

(***************************************************************************)
(* The three regular expressions of procesar_imagen_ocr, as re.search      *)
(* computes them: the leftmost match, greedy quantifiers first.  A match   *)
(* is the tuple of its groups, no match is the empty tuple.                *)
(***************************************************************************)

\* \s*de\s*(\w{3}) from position q (re.IGNORECASE): where group 3 starts, 0 if no match
FechaResto(s, q) ==
    LET q3 == SaltarEspacios(s, q)
        q4 == SaltarEspacios(s, q3 + 2)
    IN  IF /\ q3 + 1 <= Len(s)
           /\ LowerChar(s[q3]) = "d"
           /\ LowerChar(s[q3 + 1]) = "e"
           /\ \A k \in q4..(q4 + 2) : PalabraEn(s, k)
        THEN q4
        ELSE 0

\* (\w{3}),\s*(\d{1,2})\s*de\s*(\w{3}) anchored at position p
FechaEn(s, p) ==
    IF (\A k \in p..(p + 2) : PalabraEn(s, k)) /\ CharEn(s, p + 3, ",")
    THEN LET q1 == SaltarEspacios(s, p + 4)
             n  == IF DigitoEn(s, q1) /\ DigitoEn(s, q1 + 1) /\ FechaResto(s, q1 + 2) # 0
                   THEN 2
                   ELSE IF DigitoEn(s, q1) /\ FechaResto(s, q1 + 1) # 0
                   THEN 1
                   ELSE 0
         IN  IF n = 0 THEN <<>>
             ELSE LET q4 == FechaResto(s, q1 + n)
                  IN  << SubSeq(s, p, p + 2),
                         SubSeq(s, q1, q1 + n - 1),
                         SubSeq(s, q4, q4 + 2) >>
    ELSE <<>>

\* re.search(regex_fecha, linea, re.IGNORECASE)
regex_fecha(linea) ==
    IF \E p \in 1..Len(linea) : FechaEn(linea, p) # <<>>
    THEN FechaEn(linea, CHOOSE p \in 1..Len(linea) :
                    /\ FechaEn(linea, p) # <<>>
                    /\ \A j \in 1..(p-1) : FechaEn(linea, j) = <<>>)
    ELSE <<>>

\* 20\d{2} anchored at position p
AnioEn(s, p) ==
    CharEn(s, p, "2") /\ CharEn(s, p + 1, "0") /\ DigitoEn(s, p + 2) /\ DigitoEn(s, p + 3)

\* re.search(regex_anio, linea): group 0 of the leftmost match
regex_anio(linea) ==
    IF \E p \in 1..Len(linea) : AnioEn(linea, p)
    THEN LET p == CHOOSE q \in 1..Len(linea) :
                    AnioEn(linea, q) /\ \A j \in 1..(q-1) : ~AnioEn(linea, j)
         IN  SubSeq(linea, p, p + 3)
    ELSE <<>>

\* \d{1,2}:\d{2} anchored at position p: the length matched, 0 if no match
HoraEn(s, p) ==
    IF /\ DigitoEn(s, p) /\ DigitoEn(s, p + 1) /\ CharEn(s, p + 2, ":")
       /\ DigitoEn(s, p + 3) /\ DigitoEn(s, p + 4)
    THEN 5
    ELSE IF /\ DigitoEn(s, p) /\ CharEn(s, p + 1, ":")
            /\ DigitoEn(s, p + 2) /\ DigitoEn(s, p + 3)
    THEN 4
    ELSE 0

\* (\d{1,2}:\d{2})\s*-\s*(\d{1,2}:\d{2}) anchored at position p
HorasEn(s, p) ==
    LET n1 == HoraEn(s, p)
        q  == SaltarEspacios(s, p + n1)
        q2 == SaltarEspacios(s, q + 1)
        n2 == HoraEn(s, q2)
    IN  IF n1 # 0 /\ CharEn(s, q, "-") /\ n2 # 0
        THEN << SubSeq(s, p, p + n1 - 1), SubSeq(s, q2, q2 + n2 - 1) >>
        ELSE <<>>

\* re.search(regex_horas, linea)
regex_horas(linea) ==
    IF \E p \in 1..Len(linea) : HorasEn(linea, p) # <<>>
    THEN HorasEn(linea, CHOOSE p \in 1..Len(linea) :
                    /\ HorasEn(linea, p) # <<>>
                    /\ \A j \in 1..(p-1) : HorasEn(linea, j) = <<>>)
    ELSE <<>>

(***************************************************************************)
(* datetime: strptime, combine, comparison, timedelta(days=1), strftime.   *)
(* A datetime is a record; a failed strptime (ValueError) has ok = FALSE.  *)
(***************************************************************************)
EsBisiesto(y) == (y % 4 = 0 /\ y % 100 # 0) \/ y % 400 = 0

DiasDelMes(y, m) ==
    IF m = 2 THEN (IF EsBisiesto(y) THEN 29 ELSE 28)
    ELSE IF m \in {4, 6, 9, 11} THEN 30
    ELSE 31

ValueError == [ok |-> FALSE, anio |-> 0, mes |-> 0, dia |-> 0, hora |-> 0, minuto |-> 0]

\* datetime.strptime(texto, "%d/%m/%Y") for texto = f"{fecha_base}/{anio_base}"
StrptimeFecha(texto) ==
    LET d == Num(SubSeq(texto, 1, 2))
        m == Num(SubSeq(texto, 4, 5))
        y == Num(SubSeq(texto, 7, Len(texto)))
    IN  IF /\ Len(texto) = 10
           /\ m >= 1 /\ m <= 12
           /\ y >= 1
           /\ d >= 1 /\ d <= DiasDelMes(y, m)
        THEN [ok |-> TRUE, anio |-> y, mes |-> m, dia |-> d, hora |-> 0, minuto |-> 0]
        ELSE ValueError

\* datetime.strptime(g, "%H:%M").time() for a group g of regex_horas
StrptimeHora(g) ==
    LET c == CHOOSE k \in 1..Len(g) : g[k] = ":"
        h == Num(SubSeq(g, 1, c - 1))
        m == Num(SubSeq(g, c + 1, Len(g)))
    IN  IF h <= 23 /\ m <= 59
        THEN [ok |-> TRUE, anio |-> 1900, mes |-> 1, dia |-> 1, hora |-> h, minuto |-> m]
        ELSE ValueError

\* datetime.combine(fecha.date(), hora)
Combine(fecha, t) == [fecha EXCEPT !.hora = t.hora, !.minuto = t.minuto]

\* a < b on datetimes
MenorQue(a, b) ==
    LET ta == <<a.anio, a.mes, a.dia, a.hora, a.minuto>>
        tb == <<b.anio, b.mes, b.dia, b.hora, b.minuto>>
    IN  \E k \in 1..5 : ta[k] < tb[k] /\ \A j \in 1..(k-1) : ta[j] = tb[j]

\* dt + timedelta(days=1) that only counts up the day of the month
SumarUnDia_SinCalendario(dt) == [dt EXCEPT !.dia = dt.dia + 1]

\* dt + timedelta(days=1)
SumarUnDia(dt) ==
    IF dt.dia < DiasDelMes(dt.anio, dt.mes) THEN [dt EXCEPT !.dia = dt.dia + 1]
    ELSE IF dt.mes < 12 THEN [dt EXCEPT !.dia = 1, !.mes = dt.mes + 1]
    ELSE [dt EXCEPT !.dia = 1, !.mes = 1, !.anio = dt.anio + 1]

\* strftime with the month before the day: "%m/%d/%Y %H:%M"
Strftime_MesPrimero(dt) ==
    Dos(dt.mes) \o <<"/">> \o Dos(dt.dia) \o <<"/">> \o Cuatro(dt.anio)
        \o <<" ">> \o Dos(dt.hora) \o <<":">> \o Dos(dt.minuto)

\* dt.strftime("%d/%m/%Y %H:%M")
Strftime(dt) ==
    Dos(dt.dia) \o <<"/">> \o Dos(dt.mes) \o <<"/">> \o Cuatro(dt.anio)
        \o <<" ">> \o Dos(dt.hora) \o <<":">> \o Dos(dt.minuto)

(***************************************************************************)
(* es_separador, in the ingestion module and in the batch script.          *)
(***************************************************************************)
KW_PEDIDO_AGRUPADO == <<"p","e","d","i","d","o"," ","a","g","r","u","p","a","d","o">>

KW_COMPLETADO == <<"c","o","m","p","l","e","t","a","d","o">>

KW_CANCELADO == <<"c","a","n","c","e","l","a","d","o">>

KW_VER_DETALLES == <<"v","e","r"," ","d","e","t","a","l","l","e","s">>

KW_HORAS_CONECTADO == <<"h","o","r","a","s"," ","c","o","n","e","c","t","a","d","o">>

KW_PROMEDIO == <<"p","r","o","m","e","d","i","o">>

KW_ARS == <<"a","r","s">>

KW_SEMANA == <<"s","e","m","a","n","a">>

\* re.match(r"^\d{7,}$", t)
SoloDigitos7(t) == Len(t) >= 7 /\ \A k \in 1..Len(t) : EsDigito(t[k])

\* re.search(r"\d{2}", t)
DosDigitos(t) == \E p \in 1..Len(t) : DigitoEn(t, p) /\ DigitoEn(t, p + 1)

\* re.match(r"^\w{3}, \d+", t)
EncabezadoDia(t) ==
    /\ \A k \in 1..3 : PalabraEn(t, k)
    /\ CharEn(t, 4, ",")
    /\ CharEn(t, 5, " ")
    /\ DigitoEn(t, 6)

\* es_separador of src/src/ingestion/ocr.py
es_separador(texto) ==
    LET t == Strip(Lower(texto))
    IN  IF SoloDigitos7(t) THEN TRUE
        ELSE IF \E kw \in {KW_PEDIDO_AGRUPADO, KW_COMPLETADO, KW_CANCELADO,
                           KW_VER_DETALLES, KW_HORAS_CONECTADO, KW_PROMEDIO,
                           KW_ARS} : Contiene(t, kw) THEN TRUE
        ELSE IF Contiene(t, KW_SEMANA) /\ DosDigitos(t) THEN TRUE
        ELSE IF EncabezadoDia(t) THEN TRUE
        ELSE FALSE

\* es_separador of src/procesador.py without its last check, "horas conectado"
es_separador_procesador_SinHoras(texto) ==
    LET t == Strip(Lower(texto))
    IN  IF SoloDigitos7(t) THEN TRUE
        ELSE IF Contiene(t, KW_PEDIDO_AGRUPADO) THEN TRUE
        ELSE IF Contiene(t, KW_COMPLETADO) THEN TRUE
        ELSE IF Contiene(t, KW_CANCELADO) THEN TRUE
        ELSE IF Contiene(t, KW_VER_DETALLES) THEN TRUE
        ELSE IF Contiene(t, KW_SEMANA) /\ DosDigitos(t) THEN TRUE
        ELSE IF EncabezadoDia(t) THEN TRUE
        ELSE IF Contiene(t, KW_PROMEDIO) \/ Contiene(t, KW_ARS) THEN TRUE
        ELSE FALSE

\* es_separador of src/procesador.py
es_separador_procesador(texto) ==
    LET t == Strip(Lower(texto))
    IN  IF SoloDigitos7(t) THEN TRUE
        ELSE IF Contiene(t, KW_PEDIDO_AGRUPADO) THEN TRUE
        ELSE IF Contiene(t, KW_COMPLETADO) THEN TRUE
        ELSE IF Contiene(t, KW_CANCELADO) THEN TRUE
        ELSE IF Contiene(t, KW_VER_DETALLES) THEN TRUE
        ELSE IF Contiene(t, KW_SEMANA) /\ DosDigitos(t) THEN TRUE
        ELSE IF EncabezadoDia(t) THEN TRUE
        ELSE IF Contiene(t, KW_PROMEDIO) \/ Contiene(t, KW_ARS) THEN TRUE
        ELSE IF Contiene(t, KW_HORAS_CONECTADO) THEN TRUE
        ELSE FALSE

(***************************************************************************)
(* The name of an order: the one or two lines above its time range, then   *)
(* the cleanup.                                                            *)
(***************************************************************************)
DESCONOCIDO == <<"D","e","s","c","o","n","o","c","i","d","o">>

\* the two implementations of es_separador, by the module that runs
EsSeparadorDe(variante, texto) ==
    IF variante = "ocr" THEN es_separador(texto) ELSE es_separador_procesador(texto)

\* NombreCrudo that prepends the line two above without asking es_separador
NombreCrudo_SinClasificar(v, ls, k) ==
    IF k > 0
    THEN IF k > 1 THEN ls[k - 1] \o <<" ">> \o ls[k] ELSE ls[k]
    ELSE DESCONOCIDO

\* nombre before the cleanup, for the time-range line at index k (from 0, as in the code)
NombreCrudo(v, ls, k) ==
    IF k > 0
    THEN IF k > 1 /\ ~EsSeparadorDe(v, ls[k - 1])
         THEN ls[k - 1] \o <<" ">> \o ls[k]
         ELSE ls[k]
    ELSE DESCONOCIDO

\* re.sub(r"^[\W_]+", "", nombre)
QuitarInicio(nombre) ==
    LET basura(c) == ~EsPalabra(c) \/ c = "_"
        q == CHOOSE k \in 1..(Len(nombre) + 1) :
                /\ \A j \in 1..(k-1) : basura(nombre[j])
                /\ (k = Len(nombre) + 1 \/ ~basura(nombre[k]))
    IN  SubSeq(nombre, q, Len(nombre))

\* QuitarFinal with the parentheses left out of the class: r"[^\w\s]+$"
QuitarFinal_ConParentesis(nombre) ==
    LET basura(c) == ~(EsPalabra(c) \/ EsEspacio(c))
        q == CHOOSE k \in 0..Len(nombre) :
                /\ \A j \in (k+1)..Len(nombre) : basura(nombre[j])
                /\ (k = 0 \/ ~basura(nombre[k]))
    IN  SubSeq(nombre, 1, q)

\* re.sub(r"[^\w\s\(\)]+$", "", nombre)
QuitarFinal(nombre) ==
    LET basura(c) == ~(EsPalabra(c) \/ EsEspacio(c) \/ c \in {"(", ")"})
        q == CHOOSE k \in 0..Len(nombre) :
                /\ \A j \in (k+1)..Len(nombre) : basura(nombre[j])
                /\ (k = 0 \/ ~basura(nombre[k]))
    IN  SubSeq(nombre, 1, q)

\* the cleanup of nombre
LimpiarNombre(nombre) == Strip(QuitarFinal(QuitarInicio(nombre)))

(***************************************************************************)
(* The OCR text of an image: the stripped, non-empty lines of              *)
(* pytesseract's output.  The lines are drawn from pools of lines as the   *)
(* app's screens show them, and as OCR garbles them.                       *)
(***************************************************************************)
\* "vie, 5 de mar"
L_VIE_5_MAR == <<"v","i","e",","," ","5"," ","d","e"," ","m","a","r">>

\* "SAB,31 DE DIC"
L_SAB_31_DIC == <<"S","A","B",",","3","1"," ","D","E"," ","D","I","C">>

\* "jue, 31 de xyz"
L_JUE_31_XYZ == <<"j","u","e",","," ","3","1"," ","d","e"," ","x","y","z">>

\* "2024"
L_2024 == <<"2","0","2","4">>

\* "1820231615"
L_ID_2023 == <<"1","8","2","0","2","3","1","6","1","5">>

\* "23:50 - 00:15"
L_2350_0015 == <<"2","3",":","5","0"," ","-"," ","0","0",":","1","5">>

\* "lun, 29 de feb"
L_LUN_29_FEB == <<"l","u","n",","," ","2","9"," ","d","e"," ","f","e","b">>

\* "dom, 31 de abr"
L_DOM_31_ABR == <<"d","o","m",","," ","3","1"," ","d","e"," ","a","b","r">>

\* "mie, 00 de ene"
L_MIE_00_ENE == <<"m","i","e",","," ","0","0"," ","d","e"," ","e","n","e">>

\* "vie, 5 de mar 2024"
L_VIE_5_MAR_2024 == <<"v","i","e",","," ","5"," ","d","e"," ","m","a","r"," ","2","0","2","4">>

\* "12:00 - 12:30"
L_1200_1230 == <<"1","2",":","0","0"," ","-"," ","1","2",":","3","0">>

\* "9:05-9:05"
L_905_905 == <<"9",":","0","5","-","9",":","0","5">>

\* "25:00 - 26:00"
L_2500_2600 == <<"2","5",":","0","0"," ","-"," ","2","6",":","0","0">>

\* "12:00 - 12:75"
L_1200_1275 == <<"1","2",":","0","0"," ","-"," ","1","2",":","7","5">>

\* "10:00 - 10:20 11:00 - 11:30"
L_DOS_RANGOS == <<"1","0",":","0","0"," ","-"," ","1","0",":","2","0"," ","1","1",":","0","0"," ","-"," ","1","1",":","3","0">>

\* "El Local"
L_EL_LOCAL == <<"E","l"," ","L","o","c","a","l">>

\* "Bueno .."
L_BUENO == <<"B","u","e","n","o"," ",".",".">>

\* "Completado"
L_COMPLETADO == <<"C","o","m","p","l","e","t","a","d","o">>

\* "* _Cafe (2)!"
L_CAFE == <<"*"," ","_","C","a","f","e"," ","(","2",")","!">>

\* date headers, a year, an order id that holds "2023", an overnight range
PoolFechas == {L_VIE_5_MAR, L_SAB_31_DIC, L_JUE_31_XYZ, L_2024, L_ID_2023, L_2350_0015}

\* date headers that are a calendar date in some years or in none
PoolCalendario == {L_LUN_29_FEB, L_DOM_31_ABR, L_MIE_00_ENE, L_2024, L_2350_0015,
                   L_1200_1230}

\* time ranges: valid, equal clock values, invalid clock values, two ranges in a line
PoolHoras == {L_VIE_5_MAR_2024, L_1200_1230, L_905_905, L_2500_2600, L_1200_1275,
              L_DOS_RANGOS}

\* vendor names, split over two lines or with OCR artifacts, and a status line
PoolNombres == {L_VIE_5_MAR_2024, L_1200_1230, L_EL_LOCAL, L_BUENO, L_COMPLETADO,
                L_CAFE}

Pools == {PoolFechas, PoolCalendario, PoolHoras, PoolNombres}

\* the most lines of an image
MaxLineas == 4

\* the years datetime.now() may give
AniosSistema == {2023, 2024}

SeqHasta(S, n) == UNION {[1..k -> S] : k \in 0..n}

(***************************************************************************)
(* procesar_imagen_ocr as a state machine.                                 *)
(***************************************************************************)
VARIABLES
    variante,       \* "ocr": src/src/ingestion/ocr.py, "procesador": src/procesador.py
    lineas,         \* the lines of the image
    pc,             \* "contexto", "fecha", "pedidos", "done" (returned), "raised" (ValueError)
    i,              \* the index of the loop that runs, from 0 as in the code
    fecha_base,     \* "DD/MM", empty for None
    anio_base,      \* "YYYY", empty for None
    anio_sistema,   \* datetime.now().year once it was read, 0 before
    fecha_dt,       \* fecha_base_dt / fecha_obj_inicial
    pedidos,        \* pedidos / pedidos_en_foto
    texto,          \* the argument of a call of es_separador on its own
    clasificacion   \* its result in both modules, <<ocr, procesador>>; empty before

\* normalizar_para_comparar on its own
VARIABLES
    valor,          \* the argument: a cell of the sheet or a text
    campos,         \* the numbers and the layout the argument was written from
    normalizado     \* the results so far: of the call, then of the call on its result

\* obtener_firmas_existentes and pedido_ya_existe on their own
VARIABLES
    df_pedidos,         \* the historical rows
    firmas_existentes,  \* the set built from them, in a one-element tuple; empty before
    hora_aceptacion,    \* the arguments of pedido_ya_existe
    hora_entrega,
    existe              \* its result, in a one-element tuple; empty before

\* obtener_diccionario_locales and the lookup of a name
VARIABLES
    estricto,       \* TRUE: src/procesador.py, which asks for an address too
    df_historico,   \* the historical rows
    nombre_local,   \* the name looked up
    enriquecido     \* the result, in a one-element tuple; empty before

\* a session that calls procesar_imagen_ocr image after image
VARIABLES
    reloj,          \* datetime.now().year
    llamadas,       \* the calls so far: image, year of the clock, result
    session_state,  \* st.session_state["pedidos_ocr"] in a one-element tuple; empty: no key
    pantalla        \* what the last run of the script shows: preview and pedido_ocr

\* the workbook and its two writers
VARIABLES
    programa,       \* "app": src/app/streamlit_app.py, "lote": src/procesador.py
    hoja_pedidos,   \* the rows of the sheet "Pedidos"
    hoja_turnos,    \* the rows of the sheet "Turnos"
    operacion       \* the last save or run: what it read, what it did

vars_ocr == <<variante, lineas, pc, i, fecha_base, anio_base, anio_sistema, fecha_dt, pedidos>>

vars_sep == <<texto, clasificacion>>

vars_norm == <<valor, campos, normalizado>>

vars_firmas == <<df_pedidos, firmas_existentes, hora_aceptacion, hora_entrega, existe>>

vars_locales == <<estricto, df_historico, nombre_local, enriquecido>>

vars_sesion == <<reloj, llamadas, session_state, pantalla>>

vars_hoja == <<programa, hoja_pedidos, hoja_turnos, operacion>>

vars == <<vars_ocr, vars_sep, vars_norm, vars_firmas, vars_locales, vars_sesion, vars_hoja>>

\* all but one group of variables
fuera_ocr == <<vars_sep, vars_norm, vars_firmas, vars_locales, vars_sesion, vars_hoja>>

fuera_sep == <<vars_ocr, vars_norm, vars_firmas, vars_locales, vars_sesion, vars_hoja>>

fuera_norm == <<vars_ocr, vars_sep, vars_firmas, vars_locales, vars_sesion, vars_hoja>>

fuera_firmas == <<vars_ocr, vars_sep, vars_norm, vars_locales, vars_sesion, vars_hoja>>

fuera_locales == <<vars_ocr, vars_sep, vars_norm, vars_firmas, vars_sesion, vars_hoja>>

fuera_sesion == <<vars_ocr, vars_sep, vars_norm, vars_firmas, vars_locales, vars_hoja>>

fuera_hoja == <<vars_ocr, vars_sep, vars_norm, vars_firmas, vars_locales, vars_sesion>>

\* a group of variables that no action of the specification at hand touches
Reposo_ocr ==
    /\ variante = "ocr"
    /\ lineas = <<>>
    /\ pc = "done"
    /\ i = 0
    /\ fecha_base = <<>>
    /\ anio_base = <<>>
    /\ anio_sistema = 0
    /\ fecha_dt = ValueError
    /\ pedidos = <<>>

Reposo_sep == texto = <<>> /\ clasificacion = <<>>

Reposo_norm == valor = <<>> /\ campos = <<>> /\ normalizado = <<>>

Reposo_firmas ==
    /\ df_pedidos = <<>>
    /\ firmas_existentes = <<>>
    /\ hora_aceptacion = <<>>
    /\ hora_entrega = <<>>
    /\ existe = <<>>

Reposo_locales ==
    /\ estricto = FALSE
    /\ df_historico = <<>>
    /\ nombre_local = <<>>
    /\ enriquecido = <<>>

Reposo_sesion ==
    /\ reloj = 0
    /\ llamadas = <<>>
    /\ session_state = <<>>
    /\ pantalla = [excepcion |-> FALSE, preview |-> <<>>, pedido_ocr |-> <<>>]

Reposo_hoja ==
    /\ programa = "ninguno"
    /\ hoja_pedidos = <<>>
    /\ hoja_turnos = <<>>
    /\ operacion = [tipo |-> "ninguna"]

\* meses: the table of month abbreviations
meses == { <<<<"e","n","e">>, <<"0","1">>>>, <<<<"f","e","b">>, <<"0","2">>>>,
           <<<<"m","a","r">>, <<"0","3">>>>, <<<<"a","b","r">>, <<"0","4">>>>,
           <<<<"m","a","y">>, <<"0","5">>>>, <<<<"j","u","n">>, <<"0","6">>>>,
           <<<<"j","u","l">>, <<"0","7">>>>, <<<<"a","g","o">>, <<"0","8">>>>,
           <<<<"s","e","p">>, <<"0","9">>>>, <<<<"o","c","t">>, <<"1","0">>>>,
           <<<<"n","o","v">>, <<"1","1">>>>, <<<<"d","i","c">>, <<"1","2">>>> }

\* meses.get(clave, defecto)
MesesGet(clave, defecto) ==
    IF \E e \in meses : e[1] = clave
    THEN (CHOOSE e \in meses : e[1] = clave)[2]
    ELSE defecto

\* f"{m.group(2).zfill(2)}/{meses.get(m.group(3).lower()[:3], '01')}"
FechaDeMatch(m) ==
    Zfill2(m[2]) \o <<"/">> \o MesesGet(SubSeq(Lower(m[3]), 1, 3), <<"0","1">>)

\* FechaTrasLinea without "if not fecha_base": the last matching line wins
FechaTrasLinea_UltimaGana(fb, linea) ==
    IF regex_fecha(linea) # <<>>
    THEN FechaDeMatch(regex_fecha(linea))
    ELSE fb

\* fecha_base after the body of the first loop on linea
FechaTrasLinea(fb, linea) ==
    IF fb = <<>> /\ regex_fecha(linea) # <<>>
    THEN FechaDeMatch(regex_fecha(linea))
    ELSE fb

\* anio_base after the body of the first loop on linea
AnioTrasLinea(ab, linea) ==
    IF ab = <<>> /\ regex_anio(linea) # <<>>
    THEN regex_anio(linea)
    ELSE ab

\* the body of the second loop for the line at index k (from 0) and the base date:
\* "nada" (no time range), "ValueError" (a clock value does not parse), or "pedido"
IntentarLinea(v, ls, k, base) ==
    LET m == regex_horas(ls[k + 1])
    IN  IF m = <<>> THEN [tipo |-> "nada"]
        ELSE LET h_ini == StrptimeHora(m[1])
                 h_fin == StrptimeHora(m[2])
             IN  IF ~h_ini.ok \/ ~h_fin.ok THEN [tipo |-> "ValueError"]
                 ELSE LET dt_acep == Combine(base, h_ini)
                          dt_fin  == Combine(base, h_fin)
                          dt_entr == IF MenorQue(dt_fin, dt_acep)
                                     THEN SumarUnDia(dt_fin)
                                     ELSE dt_fin
                      IN  [tipo   |-> "pedido",
                           pedido |-> [Hora_Aceptacion |-> Strftime(dt_acep),
                                       Hora_Entrega    |-> Strftime(dt_entr),
                                       Nombre_Local    |->
                                           LimpiarNombre(NombreCrudo(v, ls, k))]]

Init ==
    /\ variante \in {"ocr", "procesador"}
    /\ \E pool \in Pools : lineas \in SeqHasta(pool, MaxLineas)
    /\ pc = "contexto"
    /\ i = 0
    /\ fecha_base = <<>>
    /\ anio_base = <<>>
    /\ anio_sistema = 0
    /\ fecha_dt = ValueError
    /\ pedidos = <<>>
    /\ Reposo_sep /\ Reposo_norm /\ Reposo_firmas /\ Reposo_locales
    /\ Reposo_sesion /\ Reposo_hoja

\* one iteration of "for linea in lineas" (the temporal context)
LeerContexto ==
    /\ pc = "contexto"
    /\ i < Len(lineas)
    /\ fecha_base' = FechaTrasLinea(fecha_base, lineas[i + 1])
    /\ anio_base' = AnioTrasLinea(anio_base, lineas[i + 1])
    /\ i' = i + 1
    /\ UNCHANGED <<variante, lineas, pc, anio_sistema, fecha_dt, pedidos>>
    /\ UNCHANGED fuera_ocr

\* the end of the first loop: "if not anio_base: anio_base = str(datetime.now().year)"
FinContexto ==
    /\ pc = "contexto"
    /\ i = Len(lineas)
    /\ IF anio_base = <<>>
       THEN \E y \in AniosSistema :
                /\ anio_sistema' = y
                /\ anio_base' = Cuatro(y)
       ELSE UNCHANGED <<anio_sistema, anio_base>>
    /\ pc' = "fecha"
    /\ UNCHANGED <<variante, lineas, i, fecha_base, fecha_dt, pedidos>>
    /\ UNCHANGED fuera_ocr

\* ComponerFecha without "if not fecha_base: return pedidos"
ComponerFecha_SinRetorno ==
    /\ pc = "fecha"
    /\ LET dt == StrptimeFecha(fecha_base \o <<"/">> \o anio_base)
       IN  IF dt.ok
           THEN pc' = "pedidos" /\ i' = 0 /\ fecha_dt' = dt
           ELSE IF variante = "procesador"
           THEN pc' = "done" /\ UNCHANGED <<i, fecha_dt>>
           ELSE pc' = "raised" /\ UNCHANGED <<i, fecha_dt>>
    /\ UNCHANGED <<variante, lineas, fecha_base, anio_base, anio_sistema, pedidos>>
    /\ UNCHANGED fuera_ocr

\* "if not fecha_base: return pedidos", then the strptime of the base date, which
\* the batch script guards with try/except and the ingestion module does not
ComponerFecha ==
    /\ pc = "fecha"
    /\ LET dt == StrptimeFecha(fecha_base \o <<"/">> \o anio_base)
       IN  IF fecha_base = <<>>
           THEN pc' = "done" /\ UNCHANGED <<i, fecha_dt>>
           ELSE IF dt.ok
           THEN pc' = "pedidos" /\ i' = 0 /\ fecha_dt' = dt
           ELSE IF variante = "procesador"
           THEN pc' = "done" /\ UNCHANGED <<i, fecha_dt>>
           ELSE pc' = "raised" /\ UNCHANGED <<i, fecha_dt>>
    /\ UNCHANGED <<variante, lineas, fecha_base, anio_base, anio_sistema, pedidos>>
    /\ UNCHANGED fuera_ocr

\* one iteration of "for i, linea in enumerate(lineas)": the batch script skips a
\* line whose clock values do not parse, the ingestion module lets ValueError out
ProcesarLinea ==
    /\ pc = "pedidos"
    /\ i < Len(lineas)
    /\ LET r == IntentarLinea(variante, lineas, i, fecha_dt)
       IN  IF r.tipo = "nada"
           THEN pc' = pc /\ i' = i + 1 /\ pedidos' = pedidos
           ELSE IF r.tipo = "pedido"
           THEN pc' = pc /\ i' = i + 1 /\ pedidos' = Append(pedidos, r.pedido)
           ELSE IF variante = "procesador"
           THEN pc' = pc /\ i' = i + 1 /\ pedidos' = pedidos
           ELSE pc' = "raised" /\ i' = i /\ pedidos' = pedidos
    /\ UNCHANGED <<variante, lineas, fecha_base, anio_base, anio_sistema, fecha_dt>>
    /\ UNCHANGED fuera_ocr

\* "return pedidos"
Retornar ==
    /\ pc = "pedidos"
    /\ i = Len(lineas)
    /\ pc' = "done"
    /\ UNCHANGED <<variante, lineas, i, fecha_base, anio_base, anio_sistema, fecha_dt, pedidos>>
    /\ UNCHANGED fuera_ocr

Next == LeerContexto \/ FinContexto \/ ComponerFecha \/ ProcesarLinea \/ Retornar

Spec == Init /\ [][Next]_vars

(***************************************************************************)
(* es_separador called on its own, on texts put together from fragments    *)
(* of the app's screens: digit runs, a weekday with its comma, the         *)
(* keywords in the case the screens show them, and filler.                 *)
(***************************************************************************)
\* "12"
F_12 == <<"1","2">>

\* "34567"
F_34567 == <<"3","4","5","6","7">>

\* "vie,"
F_VIE_COMA == <<"v","i","e",",">>

\* " "
F_ESPACIO == <<" ">>

\* "x"
F_X == <<"x">>

\* "Pedido Agrupado"
F_PEDIDO_AGRUPADO == <<"P","e","d","i","d","o"," ","A","g","r","u","p","a","d","o">>

\* "completado"
F_COMPLETADO == <<"c","o","m","p","l","e","t","a","d","o">>

\* "Cancelado"
F_CANCELADO == <<"C","a","n","c","e","l","a","d","o">>

\* "ver detalles"
F_VER_DETALLES == <<"v","e","r"," ","d","e","t","a","l","l","e","s">>

\* "Horas Conectado"
F_HORAS_CONECTADO == <<"H","o","r","a","s"," ","C","o","n","e","c","t","a","d","o">>

\* "PROMEDIO"
F_PROMEDIO == <<"P","R","O","M","E","D","I","O">>

\* "ars"
F_ARS == <<"a","r","s">>

\* "Semana"
F_SEMANA == <<"S","e","m","a","n","a">>

\* "_"
F_GUION_BAJO == <<"_">>

Fragmentos == {F_12, F_34567, F_VIE_COMA, F_ESPACIO, F_X,
               F_PEDIDO_AGRUPADO, F_COMPLETADO, F_CANCELADO, F_VER_DETALLES, F_HORAS_CONECTADO,
               F_PROMEDIO, F_ARS, F_SEMANA, F_GUION_BAJO}

\* the most fragments of a text
MaxFragmentos == 3

RECURSIVE Concatenar(_)
Concatenar(fs) == IF fs = <<>> THEN <<>> ELSE Head(fs) \o Concatenar(Tail(fs))

Textos == {Concatenar(fs) : fs \in SeqHasta(Fragmentos, MaxFragmentos)}

InitSeparador ==
    /\ texto \in Textos
    /\ clasificacion = <<>>
    /\ Reposo_ocr /\ Reposo_norm /\ Reposo_firmas /\ Reposo_locales
    /\ Reposo_sesion /\ Reposo_hoja

\* es_separador(texto), as each of the two modules computes it
Clasificar ==
    /\ clasificacion = <<>>
    /\ clasificacion' = <<es_separador(texto), es_separador_procesador(texto)>>
    /\ UNCHANGED <<texto, fuera_sep>>

NextSeparador == Clasificar

SpecSeparador == InitSeparador /\ [][NextSeparador]_vars

(***************************************************************************)
(* normalizar_para_comparar: the cells of the sheet, strptime with the     *)
(* four formats, the function.                                             *)
(***************************************************************************)
\* a cell: None / NaN / NaT, a text, a native datetime
Nulo == [tipo |-> "nulo", s |-> <<>>, dt |-> ValueError]

Texto(s) == [tipo |-> "str", s |-> s, dt |-> ValueError]

Nativo(dt) == [tipo |-> "datetime", s |-> <<>>, dt |-> dt]

\* the fields of a datetime before strptime has read any: 1900-01-01 00:00:00
CAMPOS_1900 == [Y |-> 1900, m |-> 1, d |-> 1, H |-> 0, M |-> 0, S |-> 0]

\* the most a directive of two digits may read: %d 31, %m 12, %H 23, %M 59, %S 61
TopeDe(dir) ==
    IF dir = "d" THEN 31 ELSE IF dir = "m" THEN 12 ELSE IF dir = "H" THEN 23
    ELSE IF dir = "M" THEN 59 ELSE 61

\* the characters a directive takes at position p of s, 0 when it does not match:
\* %Y takes four digits; the others take two digits that make a value the
\* directive allows (%d and %m not 00), else one digit (%d and %m not 0), and %d
\* takes a space and a digit from 1 to 9 as well
LargoCampo(s, p, dir) ==
    IF dir = "Y"
    THEN IF \A k \in p..(p + 3) : DigitoEn(s, k) THEN 4 ELSE 0
    ELSE LET min == IF dir \in {"d", "m"} THEN 1 ELSE 0
         IN  IF /\ DigitoEn(s, p) /\ DigitoEn(s, p + 1)
                /\ Num(SubSeq(s, p, p + 1)) >= min
                /\ Num(SubSeq(s, p, p + 1)) <= TopeDe(dir)
             THEN 2
             ELSE IF DigitoEn(s, p) /\ Num(SubSeq(s, p, p)) >= min
             THEN 1
             ELSE IF /\ dir = "d" /\ CharEn(s, p, " ")
                     /\ DigitoEn(s, p + 1) /\ Num(SubSeq(s, p + 1, p + 1)) >= 1
             THEN 2
             ELSE 0

\* the value of the characters a directive took
ValorCampo(s, p, n) ==
    IF s[p] = " " THEN Num(SubSeq(s, p + 1, p + n - 1)) ELSE Num(SubSeq(s, p, p + n - 1))

\* the pattern of strptime matched from position p of s: every directive, every
\* literal character, one or more blanks for a blank of the format, and nothing
\* left of s at the end ("unconverted data remains")
RECURSIVE Emparejar(_, _, _, _)
Emparejar(s, p, fmt, c) ==
    IF fmt = <<>>
    THEN IF p = Len(s) + 1 THEN [ok |-> TRUE, c |-> c] ELSE [ok |-> FALSE, c |-> c]
    ELSE LET t == Head(fmt)
         IN  IF t = " "
             THEN IF CharEn(s, p, " ")
                  THEN Emparejar(s, SaltarEspacios(s, p), Tail(fmt), c)
                  ELSE [ok |-> FALSE, c |-> c]
             ELSE IF t \in {"/", "-", ":"}
             THEN IF CharEn(s, p, t)
                  THEN Emparejar(s, p + 1, Tail(fmt), c)
                  ELSE [ok |-> FALSE, c |-> c]
             ELSE LET n == LargoCampo(s, p, t)
                  IN  IF n = 0 THEN [ok |-> FALSE, c |-> c]
                      ELSE Emparejar(s, p + n, Tail(fmt),
                                     [c EXCEPT ![t] = ValorCampo(s, p, n)])

\* datetime.strptime(data_string, fmt): the pattern, then the datetime of the fields,
\* which is a ValueError out of the calendar or with second 60 or 61
Strptime(data_string, fmt) ==
    LET r == Emparejar(data_string, 1, fmt, CAMPOS_1900)
    IN  IF /\ r.ok
           /\ r.c.Y >= 1
           /\ r.c.d <= DiasDelMes(r.c.Y, r.c.m)
           /\ r.c.S <= 59
        THEN [ok |-> TRUE, anio |-> r.c.Y, mes |-> r.c.m, dia |-> r.c.d,
              hora |-> r.c.H, minuto |-> r.c.M]
        ELSE ValueError

FMT_DMY_HMS == <<"d","/","m","/","Y"," ","H",":","M",":","S">>

FMT_YMD_HMS == <<"Y","-","m","-","d"," ","H",":","M",":","S">>

FMT_DMY_HM == <<"d","/","m","/","Y"," ","H",":","M">>

FMT_YMD_HM == <<"Y","-","m","-","d"," ","H",":","M">>

\* formatos without the two that read seconds
formatos_SinSegundos == <<FMT_DMY_HM, FMT_YMD_HM>>

\* formatos
formatos == <<FMT_DMY_HMS, FMT_YMD_HMS, FMT_DMY_HM, FMT_YMD_HM>>

\* "for fmt in formatos: try: return strptime(...).strftime(...)", "return texto"
RECURSIVE ProbarFormatos(_, _)
ProbarFormatos(t, fs) ==
    IF fs = <<>> THEN t
    ELSE LET dt == Strptime(t, Head(fs))
         IN  IF dt.ok THEN Strftime(dt) ELSE ProbarFormatos(t, Tail(fs))

\* normalizar_para_comparar(valor)
normalizar_para_comparar(v) ==
    IF v.tipo = "nulo" \/ (v.tipo = "str" /\ v.s = <<>>) THEN <<>>
    ELSE IF v.tipo = "datetime" THEN Strftime(v.dt)
    ELSE ProbarFormatos(Strip(v.s), formatos)

(***************************************************************************)
(* normalizar_para_comparar on its own: the arguments are written from     *)
(* numbers, in a layout, with blanks around, or are other cells.           *)
(***************************************************************************)
\* the numbers a timestamp is written from; -1: no seconds are written
DIAS == {5, 29, 31}

MESES == {2, 4, 13}

ANIOS == {2023, 2024}

HORAS == {9, 23, 24}

MINUTOS == {5, 60}

SEGUNDOS == {-1, 7, 60}

\* what stands between the date and the time
JUNTAS == {<<" ">>, <<" ", " ">>, <<"T">>}

\* the most blanks on each side of a text
MaxMargen == 1

\* texts that are no timestamp
T_VACIO == <<>>

T_PENDIENTE == <<"p","e","n","d","i","e","n","t","e">>

T_SOLO_FECHA == <<"0","5","/","0","3","/","2","0","2","4">>

T_GUION == <<"_">>

T_B == <<"b">>

T_GUION_B == <<"_","b">>

OtrosTextos == {T_VACIO, T_PENDIENTE, T_SOLO_FECHA, T_GUION, T_B, T_GUION_B}

\* native datetimes of the sheet
DT_5_MAR_2350 == [ok |-> TRUE, anio |-> 2024, mes |-> 3, dia |-> 5, hora |-> 23, minuto |-> 50]

DT_6_MAR_0015 == [ok |-> TRUE, anio |-> 2024, mes |-> 3, dia |-> 6, hora |-> 0, minuto |-> 15]

DT_31_DIC_0905 == [ok |-> TRUE, anio |-> 2023, mes |-> 12, dia |-> 31, hora |-> 9, minuto |-> 5]

Nativos == {DT_5_MAR_2350, DT_6_MAR_0015, DT_31_DIC_0905}

\* a number as written: with two digits, or with the digits it needs
Cifras(n, ceros) == IF ceros \/ n >= 10 THEN Dos(n) ELSE <<DIGITOS[n + 1]>>

\* the timestamp of the numbers c, day first with "/" or year first with "-"
Escribir(c) ==
    LET fecha == IF c.orden = "dmy"
                 THEN Cifras(c.dia, c.ceros) \o <<"/">> \o Cifras(c.mes, c.ceros)
                        \o <<"/">> \o Cuatro(c.anio)
                 ELSE Cuatro(c.anio) \o <<"-">> \o Cifras(c.mes, c.ceros)
                        \o <<"-">> \o Cifras(c.dia, c.ceros)
        reloj_  == Cifras(c.hora, c.ceros) \o <<":">> \o Cifras(c.minuto, c.ceros)
                        \o (IF c.segundo < 0 THEN <<>>
                            ELSE <<":">> \o Cifras(c.segundo, c.ceros))
    IN  fecha \o c.junta \o reloj_

Blancos(n) == [k \in 1..n |-> " "]

\* what an argument is made from: "nulo", a "datetime", a "texto" that is no
\* timestamp, or a "fecha" written from numbers
SinNumeros(clase, nucleo, dt, margen) ==
    [clase |-> clase, nucleo |-> nucleo, dt |-> dt, margen |-> margen,
     orden |-> "", dia |-> 0, mes |-> 0, anio |-> 0, hora |-> 0, minuto |-> 0,
     segundo |-> 0, ceros |-> FALSE, junta |-> <<>>]

Origenes ==
    {SinNumeros("nulo", <<>>, ValueError, 0)}
    \cup {SinNumeros("datetime", <<>>, dt, 0) : dt \in Nativos}
    \cup {SinNumeros("texto", t, ValueError, g) : t \in OtrosTextos, g \in 0..MaxMargen}
    \cup [clase : {"fecha"}, nucleo : {<<>>}, dt : {ValueError}, margen : 0..MaxMargen,
          orden : {"dmy", "ymd"}, dia : DIAS, mes : MESES, anio : ANIOS, hora : HORAS,
          minuto : MINUTOS, segundo : SEGUNDOS, ceros : BOOLEAN, junta : JUNTAS]

\* the text of an origin without the blanks around it
Nucleo(c) == IF c.clase = "fecha" THEN Escribir(c) ELSE c.nucleo

\* the cell of an origin
CeldaDe(c) ==
    IF c.clase = "nulo" THEN Nulo
    ELSE IF c.clase = "datetime" THEN Nativo(c.dt)
    ELSE Texto(Blancos(c.margen) \o Nucleo(c) \o Blancos(c.margen))

InitNormalizar ==
    /\ campos \in Origenes
    /\ valor = CeldaDe(campos)
    /\ normalizado = <<>>
    /\ Reposo_ocr /\ Reposo_sep /\ Reposo_firmas /\ Reposo_locales
    /\ Reposo_sesion /\ Reposo_hoja

\* normalizar_para_comparar(valor)
Normalizar ==
    /\ normalizado = <<>>
    /\ normalizado' = <<normalizar_para_comparar(valor)>>
    /\ UNCHANGED <<valor, campos, fuera_norm>>

\* normalizar_para_comparar of the result of the call
Renormalizar ==
    /\ Len(normalizado) = 1
    /\ normalizado' = Append(normalizado, normalizar_para_comparar(Texto(normalizado[1])))
    /\ UNCHANGED <<valor, campos, fuera_norm>>

NextNormalizar == Normalizar \/ Renormalizar

SpecNormalizar == InitNormalizar /\ [][NextNormalizar]_vars

(***************************************************************************)
(* obtener_firmas_existentes and pedido_ya_existe.                         *)
(***************************************************************************)
\* f"{a}_{b}"
Firma(a, b) == a \o <<"_">> \o b

\* obtener_firmas_existentes without "if ha and he"
obtener_firmas_existentes_SinFiltro(df) ==
    {Firma(normalizar_para_comparar(df[k].Hora_Aceptacion),
           normalizar_para_comparar(df[k].Hora_Entrega)) : k \in 1..Len(df)}

\* obtener_firmas_existentes(df_pedidos), and the loop of main in the batch script
obtener_firmas_existentes(df) ==
    LET ha(k) == normalizar_para_comparar(df[k].Hora_Aceptacion)
        he(k) == normalizar_para_comparar(df[k].Hora_Entrega)
    IN  {Firma(ha(k), he(k)) : k \in {j \in 1..Len(df) : ha(j) # <<>> /\ he(j) # <<>>}}

\* pedido_ya_existe that normalizes its two arguments first
pedido_ya_existe_Normalizando(ha, he, firmas) ==
    Firma(normalizar_para_comparar(Texto(ha)), normalizar_para_comparar(Texto(he))) \in firmas

\* pedido_ya_existe(hora_aceptacion, hora_entrega, firmas_existentes)
pedido_ya_existe(ha, he, firmas) == Firma(ha, he) \in firmas

\* timestamps of two moments, a minute later, and one of them in another format
S_ACEPTADO == <<"0","5","/","0","3","/","2","0","2","4"," ","2","3",":","5","0">>

S_ACEPTADO_ISO == <<"2","0","2","4","-","0","3","-","0","5"," ","2","3",":","5","0",":","0","0">>

S_ACEPTADO_MAS_1 == <<"0","5","/","0","3","/","2","0","2","4"," ","2","3",":","5","1">>

S_ENTREGADO == <<"0","6","/","0","3","/","2","0","2","4"," ","0","0",":","1","5">>

S_ENTREGADO_MAS_1 == <<"0","6","/","0","3","/","2","0","2","4"," ","0","0",":","1","6">>

\* a historical row
Registro(a, e) == [Hora_Aceptacion |-> a, Hora_Entrega |-> e]

\* rows: text and native datetime, another format, a missing timestamp (null,
\* empty, blank), a minute later, and texts that are no timestamps
R_TEXTO_NATIVO == Registro(Texto(S_ACEPTADO), Nativo(DT_6_MAR_0015))

R_ISO_TEXTO == Registro(Texto(S_ACEPTADO_ISO), Texto(S_ENTREGADO))

R_SIN_ACEPTACION == Registro(Nulo, Texto(S_ENTREGADO))

R_SIN_ENTREGA == Registro(Texto(S_ACEPTADO), Texto(T_VACIO))

R_ACEPTACION_EN_BLANCO == Registro(Texto(<<" ", " ">>), Nativo(DT_6_MAR_0015))

R_MAS_1 == Registro(Texto(S_ACEPTADO_MAS_1), Texto(S_ENTREGADO))

R_GUION_B == Registro(Texto(T_GUION), Texto(T_B))

R_PENDIENTE == Registro(Texto(T_PENDIENTE), Texto(S_ENTREGADO))

Registros == {R_TEXTO_NATIVO, R_ISO_TEXTO, R_SIN_ACEPTACION, R_SIN_ENTREGA,
              R_ACEPTACION_EN_BLANCO, R_MAS_1, R_GUION_B, R_PENDIENTE}

\* the most rows of a history
MaxRegistros == 2

\* the arguments of pedido_ya_existe
Aceptaciones == {T_VACIO, S_ACEPTADO, S_ACEPTADO_ISO, S_ACEPTADO_MAS_1, T_PENDIENTE}

Entregas == {T_VACIO, S_ENTREGADO, S_ENTREGADO_MAS_1, T_GUION_B, T_B}

InitFirmas ==
    /\ df_pedidos \in SeqHasta(Registros, MaxRegistros)
    /\ hora_aceptacion \in Aceptaciones
    /\ hora_entrega \in Entregas
    /\ firmas_existentes = <<>>
    /\ existe = <<>>
    /\ Reposo_ocr /\ Reposo_sep /\ Reposo_norm /\ Reposo_locales
    /\ Reposo_sesion /\ Reposo_hoja

\* firmas_existentes = obtener_firmas_existentes(df_pedidos)
ObtenerFirmas ==
    /\ firmas_existentes = <<>>
    /\ firmas_existentes' = <<obtener_firmas_existentes(df_pedidos)>>
    /\ UNCHANGED <<df_pedidos, hora_aceptacion, hora_entrega, existe, fuera_firmas>>

\* pedido_ya_existe(hora_aceptacion, hora_entrega, firmas_existentes)
Consultar ==
    /\ firmas_existentes # <<>>
    /\ existe = <<>>
    /\ existe' = <<pedido_ya_existe(hora_aceptacion, hora_entrega, firmas_existentes[1])>>
    /\ UNCHANGED <<df_pedidos, hora_aceptacion, hora_entrega, firmas_existentes, fuera_firmas>>

NextFirmas == ObtenerFirmas \/ Consultar

SpecFirmas == InitFirmas /\ [][NextFirmas]_vars

(***************************************************************************)
(* obtener_diccionario_locales and the lookup of a name in it.             *)
(***************************************************************************)
\* an empty cell of the sheet as pandas reads it
NaN == "NaN"

\* the columns of df_util that make the rows of the dictionary
Contribuye(fila, est) ==
    /\ fila.Nombre_Local # NaN
    /\ est => fila.Direccion_Local # NaN

\* what the dictionary keeps of a row
DatosDe(fila, est) ==
    IF est
    THEN [Direccion_Local |-> fila.Direccion_Local, Tipo_Negocio |-> fila.Tipo_Negocio,
          Cadena |-> fila.Cadena]
    ELSE [Tipo_Negocio |-> fila.Tipo_Negocio, Cadena |-> fila.Cadena,
          CP_Local |-> fila.CP_Local]

\* obtener_diccionario_locales with .iloc[0] for .iloc[-1]
obtener_diccionario_locales_Primera(df, est) ==
    LET df_util == SelectSeq(df, LAMBDA fila : Contribuye(fila, est))
        unique  == {df_util[k].Nombre_Local : k \in 1..Len(df_util)}
    IN  [local \in unique |->
            LET filas == SelectSeq(df_util, LAMBDA fila : fila.Nombre_Local = local)
            IN  DatosDe(filas[1], est)]

\* obtener_diccionario_locales(df_historico): est for the batch script, which drops
\* the rows without an address as well
obtener_diccionario_locales(df, est) ==
    LET df_util == SelectSeq(df, LAMBDA fila : Contribuye(fila, est))
        unique  == {df_util[k].Nombre_Local : k \in 1..Len(df_util)}
    IN  [local \in unique |->
            LET filas == SelectSeq(df_util, LAMBDA fila : fila.Nombre_Local = local)
            IN  DatosDe(filas[Len(filas)], est)]

\* {"Tipo_Negocio": "", "Cadena": "", "CP_Local": ""}
SIN_DATOS == [Tipo_Negocio |-> "", Cadena |-> "", CP_Local |-> ""]

\* completar_datos_local_desde_historico(nombre_local, df_historico)
completar_datos_local_desde_historico(nombre, df) ==
    LET dicc == obtener_diccionario_locales(df, FALSE)
    IN  IF nombre \in DOMAIN dicc THEN dicc[nombre] ELSE SIN_DATOS

\* the rows of a history: two names or none, an address or none, and one of three
\* sets of attributes, the last of them empty cells
NOMBRES == {"Kiosco", "Bar"}

ATRIBUTOS == {<<"Comida", "Si", 1000>>, <<"Bebida", "No", 2000>>, <<NaN, NaN, NaN>>}

Filas ==
    {[Nombre_Local |-> n, Direccion_Local |-> d, Tipo_Negocio |-> a[1], Cadena |-> a[2],
      CP_Local |-> a[3]] : n \in NOMBRES \cup {NaN}, d \in {"Calle 1", NaN}, a \in ATRIBUTOS}

\* the most rows of a history of locals
MaxHistorico == 3

InitLocales ==
    /\ estricto \in BOOLEAN
    /\ df_historico \in SeqHasta(Filas, MaxHistorico)
    /\ nombre_local \in NOMBRES
    /\ enriquecido = <<>>
    /\ Reposo_ocr /\ Reposo_sep /\ Reposo_norm /\ Reposo_firmas
    /\ Reposo_sesion /\ Reposo_hoja

\* enriquecido = completar_datos_local_desde_historico(nombre_local, df_pedidos)
CompletarDatos ==
    /\ ~estricto
    /\ enriquecido = <<>>
    /\ enriquecido' = <<completar_datos_local_desde_historico(nombre_local, df_historico)>>
    /\ UNCHANGED <<estricto, df_historico, nombre_local, fuera_locales>>

\* "if nombre_key in diccionario_locales: datos = diccionario_locales[nombre_key]"
\* of the batch script: the entry, or none
BuscarEnDiccionario ==
    /\ estricto
    /\ enriquecido = <<>>
    /\ LET dicc == obtener_diccionario_locales(df_historico, TRUE)
       IN  enriquecido' = <<IF nombre_local \in DOMAIN dicc
                            THEN <<dicc[nombre_local]>> ELSE <<>> >>
    /\ UNCHANGED <<estricto, df_historico, nombre_local, fuera_locales>>

NextLocales == CompletarDatos \/ BuscarEnDiccionario

SpecLocales == InitLocales /\ [][NextLocales]_vars

(***************************************************************************)
(* procesar_imagen_ocr as a function of the lines and of the year of the   *)
(* clock, and a session that calls it image after image.                   *)
(***************************************************************************)
\* fecha_base and anio_base after the first loop over the first k lines
RECURSIVE ContextoTras(_, _)
ContextoTras(ls, k) ==
    IF k = 0 THEN <<(<<>>), (<<>>)>>
    ELSE LET antes == ContextoTras(ls, k - 1)
         IN  <<FechaTrasLinea(antes[1], ls[k]), AnioTrasLinea(antes[2], ls[k])>>

\* the second loop from the index k (from 0) on: the list returned, or ValueError
RECURSIVE PedidosDesde(_, _, _, _, _)
PedidosDesde(v, ls, k, base, hechos) ==
    IF k = Len(ls) THEN [fin |-> "done", pedidos |-> hechos]
    ELSE LET r == IntentarLinea(v, ls, k, base)
         IN  IF r.tipo = "pedido"
             THEN PedidosDesde(v, ls, k + 1, base, Append(hechos, r.pedido))
             ELSE IF r.tipo = "nada" \/ v = "procesador"
             THEN PedidosDesde(v, ls, k + 1, base, hechos)
             ELSE [fin |-> "raised", pedidos |-> <<>>]

\* procesar_imagen_ocr on the lines ls of an image when datetime.now().year is ahora
procesar_imagen_ocr(v, ls, ahora) ==
    LET ctx == ContextoTras(ls, Len(ls))
        fb  == ctx[1]
        ab  == IF ctx[2] = <<>> THEN Cuatro(ahora) ELSE ctx[2]
        dt  == StrptimeFecha(fb \o <<"/">> \o ab)
    IN  IF fb = <<>> THEN [fin |-> "done", pedidos |-> <<>>]
        ELSE IF dt.ok THEN PedidosDesde(v, ls, 0, dt, <<>>)
        ELSE IF v = "procesador" THEN [fin |-> "done", pedidos |-> <<>>]
        ELSE [fin |-> "raised", pedidos |-> <<>>]

\* images: an overnight order without a year, an order with a year, an order
\* without date header, 29 February without a year, 31 April, a clock value 25:00
IMG_SIN_ANIO == <<L_VIE_5_MAR, L_EL_LOCAL, L_2350_0015>>

IMG_CON_ANIO == <<L_VIE_5_MAR_2024, L_EL_LOCAL, L_1200_1230>>

IMG_SIN_ANCLA == <<L_EL_LOCAL, L_1200_1230>>

IMG_29_FEB == <<L_LUN_29_FEB, L_CAFE, L_905_905>>

IMG_31_ABR == <<L_2024, L_DOM_31_ABR, L_1200_1230>>

IMG_25_HORAS == <<L_VIE_5_MAR_2024, L_EL_LOCAL, L_1200_1230, L_2500_2600>>

Imagenes == {IMG_SIN_ANIO, IMG_CON_ANIO, IMG_SIN_ANCLA, IMG_29_FEB, IMG_31_ABR, IMG_25_HORAS}

\* the most calls of a session
MaxLlamadas == 3

\* what a run of the script shows below the uploader: the traceback of an
\* exception that ended the run, or the preview of st.session_state["pedidos_ocr"]
\* when the key is set and pedido_ocr, the candidate that fills the form (None
\* without the key)
PANTALLA_EXCEPCION == [excepcion |-> TRUE, preview |-> <<>>, pedido_ocr |-> <<>>]

PANTALLA_VACIA == [excepcion |-> FALSE, preview |-> <<>>, pedido_ocr |-> <<>>]

\* st.session_state after "if pedidos_detectados: st.session_state[...] = ..."; the
\* key "pedidos_ocr" is absent (<<>>) or holds a list
SesionTras(ss, resultado) ==
    IF resultado.fin = "done" /\ resultado.pedidos # <<>>
    THEN <<resultado.pedidos>>
    ELSE ss

\* the options of the selectbox "Seleccionar pedido a cargar"
Opciones(ss) == IF ss = <<>> THEN {0} ELSE 0..(Len(ss[1]) - 1)

\* the preview and pedido_ocr of a run whose selectbox stands at idx
PantallaDe(ss, idx) ==
    IF ss = <<>> THEN PANTALLA_VACIA
    ELSE [excepcion |-> FALSE, preview |-> ss, pedido_ocr |-> <<ss[1][idx + 1]>>]

InitSesion ==
    /\ reloj \in AniosSistema
    /\ llamadas = <<>>
    /\ session_state = <<>>
    /\ pantalla = PANTALLA_VACIA
    /\ Reposo_ocr /\ Reposo_sep /\ Reposo_norm /\ Reposo_firmas
    /\ Reposo_locales /\ Reposo_hoja

\* a call that still sees the lines of the image before it
Llamar_ConLineasAnteriores ==
    /\ Len(llamadas) < MaxLlamadas
    /\ \E img \in Imagenes :
       \E resultado \in {procesar_imagen_ocr("ocr",
                            IF llamadas = <<>> THEN img
                            ELSE llamadas[Len(llamadas)].imagen \o img, reloj)} :
            /\ llamadas' = Append(llamadas,
                    [imagen |-> img, anio |-> reloj, resultado |-> resultado])
            /\ session_state' = SesionTras(session_state, resultado)
            /\ IF resultado.fin = "raised"
               THEN pantalla' = PANTALLA_EXCEPCION
               ELSE \E idx \in Opciones(session_state') :
                        pantalla' = PantallaDe(session_state', idx)
    /\ UNCHANGED <<reloj, fuera_sesion>>

\* a run of the script with an image in the uploader:
\* pedidos_detectados = procesar_imagen_ocr(tmp.name), whose ValueError ends the
\* run; the list, when not empty, goes to st.session_state; then the preview and
\* pedido_ocr with the selectbox at one of its options
Llamar ==
    /\ Len(llamadas) < MaxLlamadas
    /\ \E img \in Imagenes :
       \E resultado \in {procesar_imagen_ocr("ocr", img, reloj)} :
            /\ llamadas' = Append(llamadas,
                    [imagen |-> img, anio |-> reloj, resultado |-> resultado])
            /\ session_state' = SesionTras(session_state, resultado)
            /\ IF resultado.fin = "raised"
               THEN pantalla' = PANTALLA_EXCEPCION
               ELSE \E idx \in Opciones(session_state') :
                        pantalla' = PantallaDe(session_state', idx)
    /\ UNCHANGED <<reloj, fuera_sesion>>

\* a run of the script without an image in the uploader (the user has taken it
\* away, or picks another option of the selectbox afterwards)
SinArchivo ==
    /\ \E idx \in Opciones(session_state) : pantalla' = PantallaDe(session_state, idx)
    /\ UNCHANGED <<reloj, llamadas, session_state, fuera_sesion>>

\* the year of the clock goes by between two calls
PasarAnio ==
    /\ reloj + 1 \in AniosSistema
    /\ reloj' = reloj + 1
    /\ UNCHANGED <<llamadas, session_state, pantalla, fuera_sesion>>

NextSesion == Llamar \/ SinArchivo \/ PasarAnio

SpecSesion == InitSesion /\ [][NextSesion]_vars

(***************************************************************************)
(* The workbook: obtener_siguiente_id, resolver_id_turno_por_hora, the two *)
(* save buttons of the application and main of the batch script.           *)
(***************************************************************************)
\* a row of the sheet "Pedidos" and a row of the sheet "Turnos"
FilaPedido(id, turno, ha, he, nombre) ==
    [ID_Pedido |-> id, ID_Turno |-> turno, Hora_Aceptacion |-> ha, Hora_Entrega |-> he,
     Nombre_Local |-> nombre]

FilaTurno(id, inicio, fin) == [ID_Turno |-> id, Hora_Inicio |-> inicio, Hora_Fin |-> fin]

\* an empty cell of a column of identifiers, NaN once read; the identifiers that
\* the two programs write start at 1
ID_NULO == 0

\* df[columna_id].max(): the greatest of the cells that are not NaN, NaN without one
MaxColumna(df, columna_id) ==
    LET presentes == {df[k][columna_id] : k \in 1..Len(df)} \ {ID_NULO}
    IN  IF presentes = {} THEN ID_NULO
        ELSE CHOOSE x \in presentes : \A y \in presentes : y <= x

\* obtener_siguiente_id(df, columna_id): the identifier returned, or the ValueError
\* of int(NaN) when no cell of the column holds a number
obtener_siguiente_id(df, columna_id) ==
    IF df = <<>> \/ columna_id \notin DOMAIN df[1] THEN [fin |-> "return", id |-> 1]
    ELSE IF MaxColumna(df, columna_id) = ID_NULO THEN [fin |-> "raised", id |-> 0]
    ELSE [fin |-> "return", id |-> MaxColumna(df, columna_id) + 1]

\* resolver_id_turno_por_hora(hora_aceptacion, df_turnos): None, "AMBIGUO" or the
\* ID_Turno of the one shift with Hora_Inicio <= hora_aceptacion <= Hora_Fin
resolver_id_turno_por_hora(hora, df_turnos) ==
    LET turnos_validos == SelectSeq(df_turnos, LAMBDA t :
                                ~MenorQue(hora, t.Hora_Inicio) /\ ~MenorQue(t.Hora_Fin, hora))
    IN  IF turnos_validos = <<>> THEN [caso |-> "None", id |-> 0]
        ELSE IF Len(turnos_validos) > 1 THEN [caso |-> "AMBIGUO", id |-> 0]
        ELSE [caso |-> "uno", id |-> turnos_validos[1].ID_Turno]

\* st.datetime_input without a value
None == [ok |-> FALSE, anio |-> 0, mes |-> 0, dia |-> 0, hora |-> 0, minuto |-> 0]

\* the values of the form of an order
DT_5_MAR_2351 == [ok |-> TRUE, anio |-> 2024, mes |-> 3, dia |-> 5, hora |-> 23, minuto |-> 51]

DT_6_MAR_0016 == [ok |-> TRUE, anio |-> 2024, mes |-> 3, dia |-> 6, hora |-> 0, minuto |-> 16]

AceptacionesForm == {None, DT_5_MAR_2350, DT_5_MAR_2351, DT_6_MAR_0015, DT_6_MAR_0016}

EntregasForm == {None, DT_6_MAR_0015}

\* the values of the form of a shift: st.date_input and the two st.time_input
FECHA_TURNO == [ok |-> TRUE, anio |-> 2024, mes |-> 3, dia |-> 5, hora |-> 0, minuto |-> 0]

HORA_2000 == [hora |-> 20, minuto |-> 0]

HORA_2350 == [hora |-> 23, minuto |-> 50]

HORA_0015 == [hora |-> 0, minuto |-> 15]

HorasInicio == {HORA_2000, HORA_2350}

HorasFin == {HORA_2350, HORA_0015}

\* the sheet "Pedidos" at the start: empty, a row typed in Excel in another format
\* and as a native datetime, and two rows, the first without acceptance time
S_MEDIODIA == <<"0","5","/","0","3","/","2","0","2","4"," ","1","2",":","0","0">>

S_MEDIODIA_Y_MEDIA == <<"0","5","/","0","3","/","2","0","2","4"," ","1","2",":","3","0">>

HOJA_VACIA == <<>>

HOJA_EXCEL == <<FilaPedido(7, 1, Texto(S_ACEPTADO_ISO), Nativo(DT_6_MAR_0015), L_EL_LOCAL)>>

HOJA_DOS == <<FilaPedido(2, 1, Nulo, Texto(S_ENTREGADO), L_EL_LOCAL),
              FilaPedido(1, 1, Texto(S_MEDIODIA), Texto(S_MEDIODIA_Y_MEDIA), L_EL_LOCAL)>>

\* a row typed in Excel without identifier
HOJA_SIN_ID == <<FilaPedido(ID_NULO, 1, Texto(S_MEDIODIA), Texto(S_MEDIODIA_Y_MEDIA), L_EL_LOCAL)>>

HojasIniciales == {HOJA_VACIA, HOJA_EXCEL, HOJA_DOS, HOJA_SIN_ID}

\* the images of the folder of the batch script; the last one holds one time
\* range twice
IMG_DOS_IGUALES == <<L_VIE_5_MAR_2024, L_EL_LOCAL, L_1200_1230, L_BUENO, L_1200_1230>>

ImagenesLote == {IMG_SIN_ANIO, IMG_CON_ANIO, IMG_DOS_IGUALES, IMG_SIN_ANCLA}

\* the most images of a run, and the rows of a sheet from which no more is saved
MaxImagenes == 2

MaxFilas == 3

MaxTurnos == 2

\* '' in the column ID_Turno of a row of the batch script: an empty cell
SIN_TURNO == 0

\* procesar_imagen_ocr(ruta) of the batch script for each image of the folder and
\* each year of the clock
pedidos_en_foto ==
    [img \in ImagenesLote |->
        [ahora \in AniosSistema |-> procesar_imagen_ocr("procesador", img, ahora).pedidos]]

\* the candidates of the images of a run, in the order of the images
RECURSIVE CandidatosDe(_, _)
CandidatosDe(imgs, ahora) ==
    IF imgs = <<>> THEN <<>>
    ELSE pedidos_en_foto[Head(imgs)][ahora] \o CandidatosDe(Tail(imgs), ahora)

\* the loop of main without "firmas.add(firma)"
RECURSIVE FiltrarNuevos_SinAgregar(_, _, _)
FiltrarNuevos_SinAgregar(cands, firmas, contador) ==
    IF cands = <<>> THEN <<>>
    ELSE LET p == Head(cands)
             firma == Firma(p.Hora_Aceptacion, p.Hora_Entrega)
         IN  IF firma \in firmas
             THEN FiltrarNuevos_SinAgregar(Tail(cands), firmas, contador)
             ELSE <<FilaPedido(contador, SIN_TURNO, Texto(p.Hora_Aceptacion),
                               Texto(p.Hora_Entrega), p.Nombre_Local)>>
                    \o FiltrarNuevos_SinAgregar(Tail(cands), firmas, contador + 1)

\* the loop of main over the candidates: nuevos, with firmas and contador as they
\* stand before the first of cands
RECURSIVE FiltrarNuevos(_, _, _)
FiltrarNuevos(cands, firmas, contador) ==
    IF cands = <<>> THEN <<>>
    ELSE LET p == Head(cands)
             firma == Firma(p.Hora_Aceptacion, p.Hora_Entrega)
         IN  IF firma \in firmas
             THEN FiltrarNuevos(Tail(cands), firmas, contador)
             ELSE <<FilaPedido(contador, SIN_TURNO, Texto(p.Hora_Aceptacion),
                               Texto(p.Hora_Entrega), p.Nombre_Local)>>
                    \o FiltrarNuevos(Tail(cands), firmas \cup {firma}, contador + 1)

InitHoja ==
    /\ programa \in {"app", "lote"}
    /\ hoja_pedidos \in HojasIniciales
    /\ hoja_turnos = <<>>
    /\ operacion = [tipo |-> "ninguna"]
    /\ Reposo_ocr /\ Reposo_sep /\ Reposo_norm /\ Reposo_firmas
    /\ Reposo_locales /\ Reposo_sesion

\* "Guardar turno": the sheet is read, the shift gets the next ID_Turno and ends
\* a day later when its end is before its start on the clock
GuardarTurno ==
    /\ programa = "app"
    /\ Len(hoja_turnos) < MaxTurnos
    /\ \E hora_inicio \in HorasInicio, hora_fin \in HorasFin :
        IF hora_inicio = hora_fin
        THEN /\ operacion' = [tipo |-> "turno", antes |-> hoja_turnos,
                              mensaje |-> "La hora de inicio y fin no pueden ser iguales"]
             /\ UNCHANGED hoja_turnos
        ELSE LET nuevo_id  == obtener_siguiente_id(hoja_turnos, "ID_Turno")
                 dt_inicio == Combine(FECHA_TURNO, hora_inicio)
                 dt_fin    == IF MenorQue(Combine(FECHA_TURNO, hora_fin), dt_inicio)
                              THEN SumarUnDia(Combine(FECHA_TURNO, hora_fin))
                              ELSE Combine(FECHA_TURNO, hora_fin)
             IN  IF nuevo_id.fin = "raised"
                 THEN /\ operacion' = [tipo |-> "turno", antes |-> hoja_turnos,
                                       mensaje |-> "ValueError"]
                      /\ UNCHANGED hoja_turnos
                 ELSE /\ hoja_turnos' = Append(hoja_turnos,
                                            FilaTurno(nuevo_id.id, dt_inicio, dt_fin))
                      /\ operacion' = [tipo |-> "turno", antes |-> hoja_turnos,
                                       mensaje |-> "Turno guardado correctamente"]
    /\ UNCHANGED <<programa, hoja_pedidos, fuera_hoja>>

\* "Guardar pedido": the run of the script that the button starts reads the two
\* sheets, builds firmas_existentes and goes through the checks of the button; the
\* ValueError of obtener_siguiente_id ends the run before the shift is looked up
GuardarPedido ==
    /\ programa = "app"
    /\ Len(hoja_pedidos) < MaxFilas
    /\ \E ha_form \in AceptacionesForm, he_form \in EntregasForm :
        LET firmas   == obtener_firmas_existentes(hoja_pedidos)
            ha       == Strftime(ha_form)
            he       == Strftime(he_form)
            nuevo_id == obtener_siguiente_id(hoja_pedidos, "ID_Pedido")
            id_turno == resolver_id_turno_por_hora(ha_form, hoja_turnos)
            error(m) == /\ operacion' = [tipo |-> "pedido", antes |-> hoja_pedidos,
                                         hora_aceptacion |-> ha_form,
                                         hora_entrega |-> he_form,
                                         error |-> TRUE, excepcion |-> FALSE,
                                         mensaje |-> m]
                        /\ UNCHANGED hoja_pedidos
        IN  IF ha_form = None \/ he_form = None
            THEN error("Faltan horas de aceptacion o entrega")
            ELSE IF pedido_ya_existe(ha, he, firmas)
            THEN error("El pedido ya existe en el registro")
            ELSE IF nuevo_id.fin = "raised"
            THEN /\ operacion' = [tipo |-> "pedido", antes |-> hoja_pedidos,
                                  hora_aceptacion |-> ha_form, hora_entrega |-> he_form,
                                  error |-> FALSE, excepcion |-> TRUE,
                                  mensaje |-> "ValueError"]
                 /\ UNCHANGED hoja_pedidos
            ELSE IF id_turno.caso = "None"
            THEN error("No se encontro un turno que contenga la hora del pedido")
            ELSE IF id_turno.caso = "AMBIGUO"
            THEN error("La hora del pedido coincide con mas de un turno")
            ELSE /\ hoja_pedidos' = Append(hoja_pedidos,
                        FilaPedido(nuevo_id.id, id_turno.id, Texto(ha), Texto(he), L_EL_LOCAL))
                 /\ operacion' = [tipo |-> "pedido", antes |-> hoja_pedidos,
                                  hora_aceptacion |-> ha_form, hora_entrega |-> he_form,
                                  error |-> FALSE, excepcion |-> FALSE,
                                  mensaje |-> "Pedido guardado correctamente"]
    /\ UNCHANGED <<programa, hoja_turnos, fuera_hoja>>

\* obtener_siguiente_id(df, columna_id) on one of the two sheets as read
SiguienteId ==
    /\ programa = "app"
    /\ \E hoja \in {"Pedidos", "Turnos"}, columna_id \in {"ID_Pedido", "ID_Turno"} :
        LET df == IF hoja = "Pedidos" THEN hoja_pedidos ELSE hoja_turnos
        IN  operacion' = [tipo |-> "id", hoja |-> hoja, columna_id |-> columna_id,
                          nuevo_id |-> obtener_siguiente_id(df, columna_id)]
    /\ UNCHANGED <<programa, hoja_pedidos, hoja_turnos, fuera_hoja>>

\* main of the batch script on the images of the folder: ultimo_id and firmas from
\* the sheet, the candidates image after image, the new rows written at its end
\* (rellenar_huecos_historicos then fills address, type and chain, which are no
\* columns here)
EjecutarLote ==
    /\ programa = "lote"
    /\ Len(hoja_pedidos) < MaxFilas
    /\ \E imgs \in SeqHasta(ImagenesLote, MaxImagenes), ahora \in AniosSistema :
       \E ultimo_id \in {IF hoja_pedidos = <<>> THEN 0
                         ELSE IF \A k \in 1..Len(hoja_pedidos) :
                                    hoja_pedidos[k].ID_Pedido = ID_NULO THEN 0
                         ELSE MaxColumna(hoja_pedidos, "ID_Pedido")},
          firmas \in {IF hoja_pedidos = <<>> THEN {}
                      ELSE obtener_firmas_existentes(hoja_pedidos)},
          candidatos \in {CandidatosDe(imgs, ahora)} :
       \E nuevos \in {FiltrarNuevos(candidatos, firmas, ultimo_id + 1)} :
            /\ hoja_pedidos' = hoja_pedidos \o nuevos
            /\ operacion' = [tipo |-> "lote", antes |-> hoja_pedidos,
                             candidatos |-> candidatos, nuevos |-> nuevos]
    /\ UNCHANGED <<programa, hoja_turnos, fuera_hoja>>

NextHoja == GuardarTurno \/ GuardarPedido \/ SiguienteId \/ EjecutarLote

SpecHoja == InitHoja /\ [][NextHoja]_vars

(***************************************************************************)
(* The properties.                                                           *)
(***************************************************************************)

\* the function has ended: it returned or it raised
Terminado == pc \in {"done", "raised"}

\* the line holds a time range / one whose two clock values are valid HH:MM
TieneRango(linea) == regex_horas(linea) # <<>>

RangoValido(linea) ==
    /\ TieneRango(linea)
    /\ StrptimeHora(regex_horas(linea)[1]).ok
    /\ StrptimeHora(regex_horas(linea)[2]).ok

SinAncla == \A k \in 1..Len(lineas) : regex_fecha(lineas[k]) = <<>>

\* C1: when no line of the image matches the day/month anchor pattern, the
\* extraction never enters the loop over the time ranges, never raises and
\* returns the empty candidate list, whatever time ranges and years the lines hold.
C1_SinAnclaSinPedidos ==
    SinAncla => /\ pedidos = <<>>
                /\ pc \in {"contexto", "fecha", "done"}

\* C1: an image without anchor, with a valid time range and a year, has returned
C1_Witness ==
    /\ pc = "done"
    /\ SinAncla
    /\ \E k \in 1..Len(lineas) : RangoValido(lineas[k])
    /\ \E k \in 1..Len(lineas) : regex_anio(lineas[k]) # <<>>
    /\ pedidos = <<>>

\* the base date f"{fecha_base}/{anio_base}" is composed and is no calendar date
FechaInvalida ==
    /\ pc \in {"pedidos", "done", "raised"}
    /\ fecha_base # <<>>
    /\ ~StrptimeFecha(fecha_base \o <<"/">> \o anio_base).ok

\* C2: when the anchor is found but day, month and year compose no calendar
\* date, the extraction returns the empty candidate list and raises nothing,
\* in the ingestion module as in the batch script.
C2_FechaInvalidaSinExcepcion ==
    FechaInvalida => pc = "done" /\ pedidos = <<>>

\* C3: a line that holds a time range with a clock value that is no valid HH:MM
\* yields no candidate and raises nothing: the loop goes on to the next line, and
\* once the function has ended every line with a valid range has its candidate.
C3_ClockInvalidoSeSalta ==
    (fecha_dt.ok /\ \E k \in 1..Len(lineas) :
                        TieneRango(lineas[k]) /\ ~RangoValido(lineas[k]))
    => /\ pc # "raised"
       /\ pc = "done" =>
            Len(pedidos) = Cardinality({k \in 1..Len(lineas) : RangoValido(lineas[k])})

\* the line that the second loop has just handled (index i - 1 in the code) held a
\* valid time range, so that the last element of pedidos is its candidate
RecienAgregado ==
    /\ pc \in {"pedidos", "done"}
    /\ fecha_dt.ok
    /\ i >= 1
    /\ RangoValido(lineas[i])
    /\ pedidos # <<>>

UltimoPedido == pedidos[Len(pedidos)]

\* a clock value "H:MM" or "HH:MM" in minutes after midnight
MinutosDe(g) ==
    LET c == CHOOSE k \in 1..Len(g) : g[k] = ":"
    IN  60 * Num(SubSeq(g, 1, c - 1)) + Num(SubSeq(g, c + 1, Len(g)))

\* a timestamp string read as "DD/MM/YYYY HH:MM"
LeerTimestamp(s) ==
    [dia    |-> Num(SubSeq(s, 1, 2)),
     mes    |-> Num(SubSeq(s, 4, 5)),
     anio   |-> Num(SubSeq(s, 7, 10)),
     minuto |-> 60 * Num(SubSeq(s, 12, 13)) + Num(SubSeq(s, 15, 16))]

FormaTimestamp(s) ==
    /\ Len(s) = 16
    /\ s[3] = "/" /\ s[6] = "/" /\ s[11] = " " /\ s[14] = ":"
    /\ \A k \in (1..16) \ {3, 6, 11, 14} : EsDigito(s[k])

\* the days before each month of a common year
DIAS_ANTES == <<0, 31, 59, 90, 120, 151, 181, 212, 243, 273, 304, 334>>

\* the number of the day d/m/y, counted from 1 January of the year 1
NumeroDeDia(y, m, d) ==
    LET a == y - 1
        bisiesto == (y % 4 = 0 /\ y % 100 # 0) \/ y % 400 = 0
    IN  365 * a + (a \div 4) - (a \div 100) + (a \div 400)
        + DIAS_ANTES[m] + (IF bisiesto /\ m > 2 THEN 1 ELSE 0) + d

\* d/m/y is a date of the calendar
EnCalendario(y, m, d) ==
    /\ m \in 1..12
    /\ d >= 1
    /\ NumeroDeDia(y, m, d) < (IF m = 12 THEN NumeroDeDia(y + 1, 1, 1)
                                         ELSE NumeroDeDia(y, m + 1, 1))

\* C4: a candidate made from base date D and the range "start - end" has
\* acceptance = D at start, and delivery = D at end if end >= start (equal clock
\* values do not roll over), or the calendar day after D at end if end < start,
\* across a month's and a year's end too; so delivery is never before acceptance
\* and less than 24 hours after it.
C4_RolloverDeUnDia ==
    RecienAgregado =>
        LET g      == regex_horas(lineas[i])
            inicio == MinutosDe(g[1])
            fin    == MinutosDe(g[2])
            D      == NumeroDeDia(fecha_dt.anio, fecha_dt.mes, fecha_dt.dia)
            a      == LeerTimestamp(UltimoPedido.Hora_Aceptacion)
            e      == LeerTimestamp(UltimoPedido.Hora_Entrega)
            dia_a  == NumeroDeDia(a.anio, a.mes, a.dia)
            dia_e  == NumeroDeDia(e.anio, e.mes, e.dia)
        IN  /\ FormaTimestamp(UltimoPedido.Hora_Aceptacion)
            /\ FormaTimestamp(UltimoPedido.Hora_Entrega)
            /\ EnCalendario(a.anio, a.mes, a.dia)
            /\ EnCalendario(e.anio, e.mes, e.dia)
            /\ dia_a = D /\ a.minuto = inicio
            /\ e.minuto = fin
            /\ dia_e = (IF fin < inicio THEN D + 1 ELSE D)
            /\ (1440 * dia_e + e.minuto) - (1440 * dia_a + a.minuto) \in 0..1439

\* C4: the overnight range of 31 December has rolled over into the next year
C4_Witness ==
    /\ RecienAgregado
    /\ lineas[i] = L_2350_0015
    /\ UltimoPedido.Hora_Aceptacion =
         <<"3","1","/","1","2","/","2","0","2","4"," ","2","3",":","5","0">>
    /\ UltimoPedido.Hora_Entrega =
         <<"0","1","/","0","1","/","2","0","2","5"," ","0","0",":","1","5">>

\* C5: the name of the candidate of the time-range line at index n (from 0) is,
\* before its cleanup: the placeholder "Desconocido" for n = 0; line 0 alone for
\* n = 1; for n >= 2 line n-1, with line n-2 and one space before it if and only
\* if line n-2 is no separator.  No other line contributes, and line n-1 is the
\* base whatever the classifier says about it.
C5_NombreDeDosLineas ==
    RecienAgregado =>
        LET n     == i - 1
            linea(j) == lineas[j + 1]
            crudo == IF n = 0 THEN <<"D","e","s","c","o","n","o","c","i","d","o">>
                     ELSE IF n = 1 THEN linea(0)
                     ELSE IF EsSeparadorDe(variante, linea(n - 2)) THEN linea(n - 1)
                     ELSE linea(n - 2) \o <<" ">> \o linea(n - 1)
        IN  UltimoPedido.Nombre_Local = LimpiarNombre(crudo)

\* C5: "El Local", two lines above the range, is no separator and was prepended
\* to "Bueno .."
C5_Witness ==
    /\ pc = "done"
    /\ lineas = <<L_VIE_5_MAR_2024, L_EL_LOCAL, L_BUENO, L_1200_1230>>
    /\ UltimoPedido.Nombre_Local =
         <<"E","l"," ","L","o","c","a","l"," ","B","u","e","n","o">>

\* the lines that the first loop has read
Leidas == IF pc = "contexto" THEN i ELSE Len(lineas)

\* the abbreviations of the months, in the order of the calendar
MESES_EN_ORDEN == << <<"e","n","e">>, <<"f","e","b">>, <<"m","a","r">>, <<"a","b","r">>,
                     <<"m","a","y">>, <<"j","u","n">>, <<"j","u","l">>, <<"a","g","o">>,
                     <<"s","e","p">>, <<"o","c","t">>, <<"n","o","v">>, <<"d","i","c">> >>

\* C6: the day/month anchor comes from the first line, in line order, that matches
\* "<3-letter weekday>, <1-2 digit day> de <3-letter month>" in any case: the day
\* padded with a zero to two digits, the month the number of the lower-cased
\* abbreviation in ene..dic, "01" for an abbreviation that is none of them.  No
\* line after it changes the anchor, and the year plays no part in it.
C6_PrimeraAncla ==
    LET con_ancla == {k \in 1..Leidas : regex_fecha(lineas[k]) # <<>>}
    IN  IF con_ancla = {}
        THEN fecha_base = <<>>
        ELSE LET k   == CHOOSE j \in con_ancla : \A h \in con_ancla : j <= h
                 m   == regex_fecha(lineas[k])
                 dia == IF Len(m[2]) = 1 THEN <<"0", m[2][1]>> ELSE m[2]
                 abr == Lower(m[3])
                 mes == IF \E q \in 1..12 : MESES_EN_ORDEN[q] = abr
                        THEN Dos(CHOOSE q \in 1..12 : MESES_EN_ORDEN[q] = abr)
                        ELSE <<"0", "1">>
             IN  fecha_base = dia \o <<"/">> \o mes

\* C6: two header lines were read, the upper-case "SAB,31 DE DIC" first, and the
\* anchor is still the one of the first
C6_Witness ==
    /\ Leidas >= 2
    /\ lineas[1] = L_SAB_31_DIC
    /\ lineas[2] = L_VIE_5_MAR
    /\ anio_base # <<>>
    /\ fecha_base = <<"3","1","/","1","2">>

\* a whole 4-digit number that starts with "20", at position q of the line: no
\* digit before it and none after it
TokenAnioEn(s, q) == AnioEn(s, q) /\ ~DigitoEn(s, q - 1) /\ ~DigitoEn(s, q + 4)

TieneTokenAnio(s) == \E q \in 1..Len(s) : TokenAnioEn(s, q)

PrimerTokenAnio(s) ==
    LET q == CHOOSE r \in 1..Len(s) :
                TokenAnioEn(s, r) /\ \A j \in 1..(r - 1) : ~TokenAnioEn(s, j)
    IN  SubSeq(s, q, q + 3)

\* C7: the anchor year is the first 4-digit token that starts with "20", in line
\* order, a token being a whole 4-digit number and not four digits out of a longer
\* run of digits such as an order id; without such a token in any line, the year
\* is the year of the system clock when the function runs.
C7_AnioDeToken ==
    pc \in {"fecha", "pedidos", "done", "raised"} =>
        LET con_token == {k \in 1..Len(lineas) : TieneTokenAnio(lineas[k])}
        IN  IF con_token = {}
            THEN anio_sistema \in AniosSistema /\ anio_base = Cuatro(anio_sistema)
            ELSE anio_base =
                   PrimerTokenAnio(lineas[CHOOSE j \in con_token :
                                            \A h \in con_token : j <= h])

\* the candidate of line k (from 1), as the second loop makes it
PedidoDe(k) == IntentarLinea(variante, lineas, k - 1, fecha_dt).pedido

\* the lines with a valid time range, in line order
RECURSIVE LineasValidasHasta(_)
LineasValidasHasta(n) ==
    IF n = 0 THEN <<>>
    ELSE IF RangoValido(lineas[n])
    THEN Append(LineasValidasHasta(n - 1), n)
    ELSE LineasValidasHasta(n - 1)

\* C8: the candidate list of an image with a base date holds exactly one
\* candidate for each line that holds a time range with two valid clock values
\* (the first range of the line), in the order of those lines in the OCR text.
C8_UnPedidoPorLineaValida ==
    (Terminado /\ fecha_dt.ok) =>
        LET validas == LineasValidasHasta(Len(lineas))
        IN  /\ pc = "done"
            /\ Len(pedidos) = Len(validas)
            /\ \A n \in 1..Len(validas) : pedidos[n] = PedidoDe(validas[n])

\* the text in lower case, without the whitespace around it
Recortado(s) == Strip(Lower(s))

\* C9: es_separador(line) is true if and only if the line, in lower case and
\* trimmed, (1) is made of digits only, 7 or more of them, or (2) holds one of the
\* seven keywords as a substring, or (3) holds "semana" and two digits in a row,
\* or (4) starts with three word characters, a comma, one space and a digit.  The
\* four checks are a disjunction, so their order does not matter, and the batch
\* script and the ingestion module give the same answer on every line.
C9_EsSeparador ==
    clasificacion # <<>> =>
        LET t == Recortado(texto)
            solo_digitos == Len(t) >= 7 /\ \A k \in 1..Len(t) : t[k] \in CharsDigito
            palabra_clave ==
                \E kw \in { <<"p","e","d","i","d","o"," ","a","g","r","u","p","a","d","o">>,
                            <<"c","o","m","p","l","e","t","a","d","o">>,
                            <<"c","a","n","c","e","l","a","d","o">>,
                            <<"v","e","r"," ","d","e","t","a","l","l","e","s">>,
                            <<"h","o","r","a","s"," ","c","o","n","e","c","t","a","d","o">>,
                            <<"p","r","o","m","e","d","i","o">>,
                            <<"a","r","s">> } :
                    \E a \in 1..Len(t) : \E b \in a..Len(t) : SubSeq(t, a, b) = kw
            semana ==
                /\ \E a \in 1..Len(t) : \E b \in a..Len(t) :
                        SubSeq(t, a, b) = <<"s","e","m","a","n","a">>
                /\ \E a \in 1..(Len(t) - 1) :
                        t[a] \in CharsDigito /\ t[a + 1] \in CharsDigito
            encabezado ==
                /\ Len(t) >= 6
                /\ \A k \in 1..3 : t[k] \in CharsPalabra
                /\ t[4] = "," /\ t[5] = " " /\ t[6] \in CharsDigito
            separador == solo_digitos \/ palabra_clave \/ semana \/ encabezado
        IN  /\ clasificacion[1] = separador
            /\ clasificacion[2] = separador

\* C9: a text that is a separator by the last check of the batch script alone
\* ("horas conectado", in the case the screen shows it) was classified by both
C9_Witness ==
    /\ clasificacion = <<TRUE, TRUE>>
    /\ texto = F_HORAS_CONECTADO \o F_ESPACIO \o F_12

\* the cleanup as the specification words it: the leading run of characters that are neither
\* word characters nor spaces, the trailing run of characters that are neither
\* word characters, whitespace nor parentheses, then the whitespace around
LimpiezaSinEspacios(s) ==
    LET inicio(c) == ~(c \in CharsPalabra \/ c = " ")
        final(c)  == ~(c \in CharsPalabra \/ c = " " \/ c = "(" \/ c = ")")
        a == CHOOSE k \in 1..(Len(s) + 1) :
                (\A j \in 1..(k - 1) : inicio(s[j])) /\ (k = Len(s) + 1 \/ ~inicio(s[k]))
        r == SubSeq(s, a, Len(s))
        b == CHOOSE k \in 0..Len(r) :
                (\A j \in (k + 1)..Len(r) : final(r[j])) /\ (k = 0 \/ ~final(r[k]))
    IN  Strip(SubSeq(r, 1, b))

\* the cleanup as the code has it: everything before the first letter or digit
\* goes (symbols, spaces and underscores), then the trailing run of characters
\* that are neither word characters, whitespace nor parentheses, then the
\* whitespace around
LimpiezaHastaLetra(s) ==
    LET alfanum(c) == c \in CharsPalabra /\ c # "_"
        final(c)   == ~(c \in CharsPalabra \/ c = " " \/ c = "(" \/ c = ")")
    IN  IF \A k \in 1..Len(s) : ~alfanum(s[k])
        THEN <<>>
        ELSE LET a == CHOOSE k \in 1..Len(s) :
                        alfanum(s[k]) /\ \A j \in 1..(k - 1) : ~alfanum(s[j])
                 b == CHOOSE k \in a..Len(s) :
                        ~final(s[k]) /\ \A j \in (k + 1)..Len(s) : final(s[j])
                 c == CHOOSE k \in a..b :
                        s[k] # " " /\ \A j \in (k + 1)..b : s[j] = " "
             IN  SubSeq(s, a, c)

\* C10 as stated: after assembly, the leading run of characters that are neither
\* word characters nor spaces is removed (an underscore and anything after a
\* space are kept), then the trailing run of characters that are neither word
\* characters, whitespace nor parentheses, then the whitespace around.
C10_LimpiezaSegunSpec ==
    RecienAgregado =>
        UltimoPedido.Nombre_Local =
            LimpiezaSinEspacios(NombreCrudo(variante, lineas, i - 1))

\* C10 amended: after assembly, everything before the first letter or digit is
\* removed (non-word characters, spaces among them, and underscores), then the
\* trailing run of characters that are neither word characters, whitespace nor
\* parentheses (a closing parenthesis stays), then the whitespace around.
C10_Limpieza ==
    RecienAgregado =>
        UltimoPedido.Nombre_Local =
            LimpiezaHastaLetra(NombreCrudo(variante, lineas, i - 1))

\* C10: the name "* _Cafe (2)!" lost "* _" and "!" and kept its parenthesis
C10_Witness ==
    /\ RecienAgregado
    /\ NombreCrudo(variante, lineas, i - 1) = L_CAFE
    /\ UltimoPedido.Nombre_Local = <<"C","a","f","e"," ","(","2",")">>

\* the numbers of an origin are a moment of the calendar and of the clock, and its
\* date and its time are a blank or more apart
EsInstante(c) ==
    /\ c.mes \in 1..12
    /\ c.dia \in 1..(IF c.mes = 2
                     THEN (IF c.anio % 4 = 0 /\ (c.anio % 100 # 0 \/ c.anio % 400 = 0)
                           THEN 29 ELSE 28)
                     ELSE IF c.mes \in {4, 6, 9, 11} THEN 30 ELSE 31)
    /\ c.hora \in 0..23
    /\ c.minuto \in 0..59
    /\ c.segundo \in -1..59
    /\ c.junta # <<>> /\ \A k \in 1..Len(c.junta) : c.junta[k] = " "

\* "DD/MM/YYYY HH:MM" of five numbers
Canonico(dia, mes, anio, hora, minuto) ==
    Dos(dia) \o <<"/">> \o Dos(mes) \o <<"/">> \o Cuatro(anio)
        \o <<" ">> \o Dos(hora) \o <<":">> \o Dos(minuto)

C12_Idempotente ==
    Len(normalizado) = 2 => normalizado[2] = normalizado[1]

\* C12: a timestamp, year first and with seconds, was normalized twice
C12_Witness ==
    /\ Len(normalizado) = 2
    /\ campos.clase = "fecha" /\ campos.orden = "ymd" /\ campos.segundo = 7
    /\ EsInstante(campos)
    /\ normalizado[2] = Canonico(campos.dia, campos.mes, campos.anio, campos.hora, campos.minuto)

\* the set was built / the question was asked
FirmasListas == firmas_existentes # <<>>

Consultado == existe # <<>>

\* the two normalized timestamps of the row k of the history
AceptacionNormal(k) == normalizar_para_comparar(df_pedidos[k].Hora_Aceptacion)

EntregaNormal(k) == normalizar_para_comparar(df_pedidos[k].Hora_Entrega)

\* the rows with both normalized timestamps non-empty
Completos == {k \in 1..Len(df_pedidos) : AceptacionNormal(k) # <<>> /\ EntregaNormal(k) # <<>>}

\* x is a, then "_", then e
EsFirmaDe(x, a, e) ==
    /\ Len(x) = Len(a) + 1 + Len(e)
    /\ SubSeq(x, 1, Len(a)) = a
    /\ x[Len(a) + 1] = "_"
    /\ SubSeq(x, Len(a) + 2, Len(x)) = e

\* the set holds the signature of every complete row and nothing else
SoloCompletos ==
    /\ \A k \in Completos :
            \E x \in firmas_existentes[1] : EsFirmaDe(x, AceptacionNormal(k), EntregaNormal(k))
    /\ \A x \in firmas_existentes[1] :
            \E k \in Completos : EsFirmaDe(x, AceptacionNormal(k), EntregaNormal(k))

C14_Pertenencia ==
    Consultado =>
        /\ existe[1] = (\E x \in firmas_existentes[1] :
                            EsFirmaDe(x, hora_aceptacion, hora_entrega))
        /\ (/\ firmas_existentes[1] = {S_ACEPTADO \o <<"_">> \o S_ENTREGADO}
            /\ hora_aceptacion \in {S_ACEPTADO_ISO, S_ACEPTADO_MAS_1}) => existe[1] = FALSE
        /\ (/\ firmas_existentes[1] = {S_ACEPTADO \o <<"_">> \o S_ENTREGADO}
            /\ hora_aceptacion = S_ACEPTADO) => existe[1] = (hora_entrega = S_ENTREGADO)

\* C14: the history holds the moment once; the question that writes the same
\* acceptance time year first and with seconds was answered no
C14_Witness ==
    /\ df_pedidos = <<R_TEXTO_NATIVO>>
    /\ hora_aceptacion = S_ACEPTADO_ISO /\ hora_entrega = S_ENTREGADO
    /\ existe = <<FALSE>>

\* the rows of the history that contribute and carry the name looked up
FilasDelNombre ==
    {k \in 1..Len(df_historico) :
        /\ df_historico[k].Nombre_Local = nombre_local
        /\ df_historico[k].Nombre_Local # NaN
        /\ estricto => df_historico[k].Direccion_Local # NaN}

\* the last of them in the order of the sheet
UltimaFila == df_historico[CHOOSE k \in FilasDelNombre : \A j \in FilasDelNombre : j <= k]

\* C15: the lookup of a name gives the business type, the chain flag and the postal
\* code (the address in the batch script) of the last row, in the order of the
\* sheet, among the contributing rows with that name, also when that row and an
\* earlier one disagree; with no such row it gives the record of empty defaults
\* (no entry in the batch script).  A row contributes when its name is not null
\* and, in the batch script, its address is not null either: a later row without
\* address does not count there.
C15_UltimaFilaDelLocal ==
    enriquecido # <<>> =>
        IF estricto
        THEN IF FilasDelNombre = {} THEN enriquecido[1] = <<>>
             ELSE /\ Len(enriquecido[1]) = 1
                  /\ enriquecido[1][1].Tipo_Negocio = UltimaFila.Tipo_Negocio
                  /\ enriquecido[1][1].Cadena = UltimaFila.Cadena
                  /\ enriquecido[1][1].Direccion_Local = UltimaFila.Direccion_Local
        ELSE IF FilasDelNombre = {}
             THEN enriquecido[1] = [Tipo_Negocio |-> "", Cadena |-> "", CP_Local |-> ""]
             ELSE /\ enriquecido[1].Tipo_Negocio = UltimaFila.Tipo_Negocio
                  /\ enriquecido[1].Cadena = UltimaFila.Cadena
                  /\ enriquecido[1].CP_Local = UltimaFila.CP_Local

\* C15: in the batch script, three rows of one name: "Comida", then "Bebida" with
\* an address, then "Comida" without address; the lookup gave "Bebida"
C15_Witness ==
    /\ estricto
    /\ Len(df_historico) = 3
    /\ \A k \in 1..3 : df_historico[k].Nombre_Local = nombre_local
    /\ df_historico[1].Tipo_Negocio = "Comida" /\ df_historico[1].Direccion_Local # NaN
    /\ df_historico[2].Tipo_Negocio = "Bebida" /\ df_historico[2].Direccion_Local # NaN
    /\ df_historico[3].Tipo_Negocio = "Comida" /\ df_historico[3].Direccion_Local = NaN
    /\ enriquecido # <<>> /\ enriquecido[1] # <<>>
    /\ enriquecido[1][1].Tipo_Negocio = "Bebida"

\* the image holds four digits in a row that begin with "20"
ConAnio(img) ==
    \E k \in 1..Len(img) : \E q \in 1..(Len(img[k]) - 3) :
        /\ img[k][q] = "2" /\ img[k][q + 1] = "0"
        /\ img[k][q + 2] \in CharsDigito /\ img[k][q + 3] \in CharsDigito

\* C16 as stated: two calls of procesar_imagen_ocr on the same text end the same
\* way, with the same list, whatever images came before and whenever they happen.
C16_MismoTextoMismoResultado ==
    \A a, b \in 1..Len(llamadas) :
        llamadas[a].imagen = llamadas[b].imagen =>
            llamadas[a].resultado = llamadas[b].resultado

\* C16 amended: two calls of procesar_imagen_ocr on the same text end the same way,
\* with the same list, whatever images came before, when they happen in the same
\* year of the clock or the text holds a year; a text without a year is dated with
\* the year of the clock at the call, so its timestamps follow the clock.
C16_MismoTextoMismoAnio ==
    \A a, b \in 1..Len(llamadas) :
        /\ (/\ llamadas[a].imagen = llamadas[b].imagen
            /\ (llamadas[a].anio = llamadas[b].anio \/ ConAnio(llamadas[a].imagen)))
                => llamadas[a].resultado = llamadas[b].resultado
        /\ (/\ ~ConAnio(llamadas[a].imagen)
            /\ llamadas[a].resultado.fin = "done")
                => \A n \in 1..Len(llamadas[a].resultado.pedidos) :
                        SubSeq(llamadas[a].resultado.pedidos[n].Hora_Aceptacion, 7, 10)
                            = Cuatro(llamadas[a].anio)

\* C16: the image without a year was read, then the image with a year, then the
\* first one again in the same year, with the same list of one order
C16_Witness ==
    /\ Len(llamadas) = 3
    /\ llamadas[1].imagen = IMG_SIN_ANIO
    /\ llamadas[2].imagen = IMG_CON_ANIO
    /\ llamadas[3].imagen = IMG_SIN_ANIO
    /\ llamadas[3].anio = llamadas[1].anio
    /\ Len(llamadas[3].resultado.pedidos) = 1
    /\ llamadas[3].resultado = llamadas[1].resultado

\* a batch run has ended; operacion holds the sheet as read, the candidates of
\* the images in order and the rows written
TrasLote == operacion.tipo = "lote"

\* the rows of the sheet h with two non-empty normalized timestamps
FilasCompletas(h) ==
    {k \in 1..Len(h) : /\ normalizar_para_comparar(h[k].Hora_Aceptacion) # <<>>
                       /\ normalizar_para_comparar(h[k].Hora_Entrega) # <<>>}

\* x is the signature of a row of the sheet h
EnHistorico(x, h) ==
    \E k \in FilasCompletas(h) :
        EsFirmaDe(x, normalizar_para_comparar(h[k].Hora_Aceptacion),
                     normalizar_para_comparar(h[k].Hora_Entrega))

\* the signature of a candidate and of a row written by the batch run
FirmaDeCandidato(p) == p.Hora_Aceptacion \o <<"_">> \o p.Hora_Entrega

FirmaDeFila(f) == f.Hora_Aceptacion.s \o <<"_">> \o f.Hora_Entrega.s

\* Q is the set of the indices of the candidates queued: each one new against the
\* history and against the candidates queued before it, every other one not
ColaSegunFirmas(Q, cands, h) ==
    \A k \in 1..Len(cands) :
        k \in Q <=> /\ ~EnHistorico(FirmaDeCandidato(cands[k]), h)
                    /\ \A j \in Q : j < k =>
                            FirmaDeCandidato(cands[j]) # FirmaDeCandidato(cands[k])

\* the rows are the candidates of Q in their order
FilasDeCola(filas, Q, cands) ==
    /\ Len(filas) = Cardinality(Q)
    /\ \A k \in Q :
        LET f == filas[Cardinality({j \in Q : j <= k})]
        IN  /\ f.Hora_Aceptacion = Texto(cands[k].Hora_Aceptacion)
            /\ f.Hora_Entrega = Texto(cands[k].Hora_Entrega)
            /\ f.Nombre_Local = cands[k].Nombre_Local

\* C17: in one batch run over any sequence of images a candidate is queued for
\* insertion if and only if its signature Hora_Aceptacion + "_" + Hora_Entrega is
\* neither in the signature set of the historical sheet nor the signature of a
\* candidate queued earlier in the run; the rows queued are appended to the sheet,
\* no two of them share a signature and none repeats the signature of a
\* historical row.
C17_ColaSinDuplicados ==
    TrasLote =>
        /\ \E Q \in SUBSET (1..Len(operacion.candidatos)) :
                /\ ColaSegunFirmas(Q, operacion.candidatos, operacion.antes)
                /\ FilasDeCola(operacion.nuevos, Q, operacion.candidatos)
        /\ hoja_pedidos = operacion.antes \o operacion.nuevos
        /\ \A a, b \in 1..Len(operacion.nuevos) :
                a # b => FirmaDeFila(operacion.nuevos[a]) # FirmaDeFila(operacion.nuevos[b])
        /\ \A a \in 1..Len(operacion.nuevos) :
                ~EnHistorico(FirmaDeFila(operacion.nuevos[a]), operacion.antes)

\* a run over two images on the sheet typed in Excel: the candidate of the first
\* image is the order of the sheet written in another form, the second image holds
\* one order twice; one row is written
C17_Witness ==
    /\ TrasLote
    /\ operacion.antes = HOJA_EXCEL
    /\ Len(operacion.candidatos) = 3
    /\ EnHistorico(FirmaDeCandidato(operacion.candidatos[1]), HOJA_EXCEL)
    /\ FirmaDeCandidato(operacion.candidatos[2]) = FirmaDeCandidato(operacion.candidatos[3])
    /\ Len(operacion.nuevos) = 1
    /\ operacion.nuevos[1].Hora_Aceptacion = Texto(operacion.candidatos[2].Hora_Aceptacion)

\* "Guardar pedido" has been pressed; operacion holds the sheet as read, the two
\* values of the form and whether st.error was shown
TrasGuardarPedido == operacion.tipo = "pedido"

\* the rows of the shifts that hold the moment, bounds included
TurnosQueContienen(hora) ==
    {k \in 1..Len(hoja_turnos) : /\ ~MenorQue(hora, hoja_turnos[k].Hora_Inicio)
                                 /\ ~MenorQue(hoja_turnos[k].Hora_Fin, hora)}

\* both timestamps set, a signature not in the sheet, exactly one shift
SePuedeGuardar ==
    /\ operacion.hora_aceptacion # None
    /\ operacion.hora_entrega # None
    /\ ~EnHistorico(Strftime(operacion.hora_aceptacion) \o <<"_">>
                        \o Strftime(operacion.hora_entrega), operacion.antes)
    /\ Cardinality(TurnosQueContienen(operacion.hora_aceptacion)) = 1

\* the sheet is the one read and one row more, with the two renderings and the
\* ID_Turno of the shift that holds the acceptance
UnaFilaMas ==
    /\ Len(hoja_pedidos) = Len(operacion.antes) + 1
    /\ SubSeq(hoja_pedidos, 1, Len(operacion.antes)) = operacion.antes
    /\ LET f == hoja_pedidos[Len(hoja_pedidos)]
       IN  /\ f.Hora_Aceptacion = Texto(Strftime(operacion.hora_aceptacion))
           /\ f.Hora_Entrega = Texto(Strftime(operacion.hora_entrega))
           /\ \A k \in TurnosQueContienen(operacion.hora_aceptacion) :
                    f.ID_Turno = hoja_turnos[k].ID_Turno

\* C18: "Guardar pedido" appends exactly one order row if and only if both
\* timestamps are set, the signature of their "DD/MM/YYYY HH:MM" renderings is not
\* in the set built from the orders sheet and exactly one shift has
\* Hora_Inicio <= acceptance <= Hora_Fin, whose ID_Turno the row stores; in every
\* other case an error is shown and the orders sheet is left unchanged.
C18_GuardarPedido ==
    TrasGuardarPedido =>
        IF SePuedeGuardar
        THEN ~operacion.error /\ UnaFilaMas
        ELSE operacion.error /\ hoja_pedidos = operacion.antes

\* obtener_siguiente_id has been called on a sheet as read; operacion holds the
\* sheet, the column and what the call gave
TrasSiguienteId == operacion.tipo = "id"

HojaLeida == IF operacion.hoja = "Pedidos" THEN hoja_pedidos ELSE hoja_turnos

\* the table is empty or has no column of the name
SinColumna(df, columna_id) == df = <<>> \/ columna_id \notin DOMAIN df[1]

\* x is max(id) of the column: an identifier of the column, and no row holds a
\* greater one
EsMaximo(x, df, columna_id) ==
    /\ \E k \in 1..Len(df) : df[k][columna_id] = x
    /\ \A k \in 1..Len(df) : df[k][columna_id] <= x

\* 1 for an empty table or a table without the column, max(id) + 1 otherwise
SiguienteSegunMaximo ==
    TrasSiguienteId =>
        /\ operacion.nuevo_id.fin = "return"
        /\ IF SinColumna(HojaLeida, operacion.columna_id)
           THEN operacion.nuevo_id.id = 1
           ELSE EsMaximo(operacion.nuevo_id.id - 1, HojaLeida, operacion.columna_id)

\* the batch run numbers its rows one by one from max(ID_Pedido) + 1, from 1
\* when the sheet holds no identifier
LoteNumeraDesdeMaximo ==
    TrasLote =>
        \A k \in 1..Len(operacion.nuevos) :
            IF \A j \in 1..Len(operacion.antes) : operacion.antes[j].ID_Pedido = ID_NULO
            THEN operacion.nuevos[k].ID_Pedido = k
            ELSE EsMaximo(operacion.nuevos[k].ID_Pedido - k, operacion.antes, "ID_Pedido")

\* the rows appended by the last save or batch run
FilasNuevas(df, antes) == {k \in 1..Len(df) : k > Len(antes)}

\* every row appended has an identifier above every identifier stored before it
NuevosPorEncima(df, antes, columna_id) ==
    \A k \in FilasNuevas(df, antes) : \A j \in 1..(k - 1) : df[j][columna_id] < df[k][columna_id]

\* the identifiers of the column are pairwise distinct
SinRepetidos(df, columna_id) ==
    \A j, k \in 1..Len(df) :
        (j # k /\ df[j][columna_id] # ID_NULO) => df[j][columna_id] # df[k][columna_id]

\* C19: obtener_siguiente_id returns 1 for an empty table or a table without the
\* id column and max(id) + 1 otherwise, and the batch script numbers its new rows
\* consecutively from max(ID_Pedido) + 1 (from 1 when there is none); so after any
\* sequence of saves or batch runs every newly appended row has an identifier
\* strictly greater than every identifier already stored, and identifiers are
\* pairwise distinct.
C19_Identificadores ==
    /\ SiguienteSegunMaximo
    /\ LoteNumeraDesdeMaximo
    /\ operacion.tipo \in {"pedido", "lote"} =>
            NuevosPorEncima(hoja_pedidos, operacion.antes, "ID_Pedido")
    /\ operacion.tipo = "turno" => NuevosPorEncima(hoja_turnos, operacion.antes, "ID_Turno")
    /\ SinRepetidos(hoja_pedidos, "ID_Pedido")
    /\ SinRepetidos(hoja_turnos, "ID_Turno")

\* the candidates of the list stored in the history as extracted
HistoricoDePedidos ==
    [k \in 1..Len(pedidos) |->
        Registro(Texto(pedidos[k].Hora_Aceptacion), Texto(pedidos[k].Hora_Entrega))]

\* C20: both timestamp strings of every candidate returned by procesar_imagen_ocr
\* are fixed points of normalizar_para_comparar, zero-padded "DD/MM/YYYY HH:MM";
\* so once the strings of the candidates are stored in the history as extracted,
\* obtener_firmas_existentes over that history followed by pedido_ya_existe on a
\* candidate extracted again gives true.
C20_IdaYVuelta ==
    \A k \in 1..Len(pedidos) :
        /\ FormaTimestamp(pedidos[k].Hora_Aceptacion)
        /\ FormaTimestamp(pedidos[k].Hora_Entrega)
        /\ normalizar_para_comparar(Texto(pedidos[k].Hora_Aceptacion))
                = pedidos[k].Hora_Aceptacion
        /\ normalizar_para_comparar(Texto(pedidos[k].Hora_Entrega))
                = pedidos[k].Hora_Entrega
        /\ pedido_ya_existe(pedidos[k].Hora_Aceptacion, pedidos[k].Hora_Entrega,
                            obtener_firmas_existentes(HistoricoDePedidos))

\* the function has returned the one candidate of an image with the line
\* "9:05 - 9:05": hour and minute are written with two digits, and the two
\* timestamps are the same
C20_Witness ==
    /\ pc = "done"
    /\ Len(pedidos) = 1
    /\ \E k \in 1..Len(lineas) : lineas[k] = L_905_905
    /\ SubSeq(pedidos[1].Hora_Aceptacion, 12, 16) = <<"0","9",":","0","5">>
    /\ pedidos[1].Hora_Aceptacion = pedidos[1].Hora_Entrega

\* the line supplies the day/month anchor: regex_fecha matches somewhere in it
TieneAncla(linea) == regex_fecha(linea) # <<>>

\* the candidate just appended comes from a time-range line with two lines above it
ConDosLineasArriba == RecienAgregado /\ i >= 3

\* C21: every line that matches the anchor pattern, with any amount of whitespace
\* after the comma and at any position in the line, is a separator for
\* es_separador, so the date header line is never prepended to a vendor name as
\* the line two above the time range.
C21_AnclaEsSeparador ==
    /\ \A k \in 1..Len(lineas) :
            TieneAncla(lineas[k]) => EsSeparadorDe(variante, lineas[k])
    /\ (ConDosLineasArriba /\ TieneAncla(lineas[i - 2])) =>
            UltimoPedido.Nombre_Local = LimpiarNombre(lineas[i - 1])

\* the line d above the time-range line of the candidate just appended is itself
\* a time-range line
RangoArriba(d) == i - d >= 1 /\ TieneRango(lineas[i - d])

\* C22: the vendor name of a candidate never holds the text of a line that is
\* itself a time-range line: the time-range line of an order is neither the base
\* of the name of the order after it nor the line two above prepended to it.
C22_NombreSinLineaDeRango ==
    RecienAgregado =>
        \A d \in {1, 2} :
            RangoArriba(d) => ~Contiene(UltimoPedido.Nombre_Local, lineas[i - d])

\* the most recent upload of the session and the candidates its extraction gave
UltimaSubida == llamadas[Len(llamadas)]

CandidatosDeUltimaSubida ==
    IF UltimaSubida.resultado.fin = "done" THEN UltimaSubida.resultado.pedidos ELSE <<>>

\* C23: the candidates offered for preview and form prefill always come from the
\* most recently uploaded image: after an upload whose extraction yields no
\* candidates, no candidate detected in an earlier upload of the session is shown
\* or used to prefill the order fields.
C23_PreviewDeUltimaSubida ==
    llamadas # <<>> =>
        /\ pantalla.preview # <<>> => pantalla.preview[1] = CandidatosDeUltimaSubida
        /\ pantalla.pedido_ocr # <<>> =>
                \E k \in 1..Len(CandidatosDeUltimaSubida) :
                    pantalla.pedido_ocr[1] = CandidatosDeUltimaSubida[k]
        /\ CandidatosDeUltimaSubida = <<>> =>
                pantalla.preview = <<>> /\ pantalla.pedido_ocr = <<>>

=============================================================================
